---- MODULE Spec2Model ----
(***************************************************************************)
(* The data transformation pipeline of the FHOS/RAMASON equipment report   *)
(* (src/app_optimized.py, with src/app.py as its legacy variant):          *)
(* handpiece classification, remaining service life, the temporal filter,  *)
(* the treatment join and the st.cache_data memoisation around them, the   *)
(* loading of the tables, the suggested cutoff and the three summaries.    *)
(*                                                                         *)
(* Strings of identifiers are sequences of one-character strings, so that  *)
(* the regular expressions of the code can be evaluated on them.  Instants *)
(* are integers counting half days (TicksPerDay ticks to a day).           *)
(***************************************************************************)
EXTENDS Integers, Sequences, FiniteSets, TLC

VARIABLES
    handpiece_df,           \* load_data()[0]: the handpiece usage table
    treatments_df,          \* load_data()[2]: the treatment event table
    treatments_id_df,       \* load_data()[3]: the treatment-code lookup table
    now,                    \* the wall clock, pd.Timestamp.now(tz='UTC')
    cache_process_data,     \* st.cache_data store of process_data
    cache_handpiece_dates,  \* st.cache_data store of process_handpiece_dates
    call,                   \* the last call made: its function and arguments
    result,                 \* what that call returned
    pc,                     \* "start" before load_data, "loaded" after it,
                            \* "ready" before the first call, "done" after a call
    page                    \* what the run of main rendered below the title

vars == <<handpiece_df, treatments_df, treatments_id_df, now,
          cache_process_data, cache_handpiece_dates, call, result, pc, page>>

(***************************************************************************)
(* Bounds of the model.                                                    *)
(***************************************************************************)
MaxIdLen == 3       \* longest identifier suffix drawn
MaxExtra == 1       \* counters are drawn at a base value plus 0..MaxExtra

(***************************************************************************)
(* Identity Classifier: process_data, lines 133-138.                       *)
(***************************************************************************)
Digits == {"0", "1", "2", "9"}          \* the part of \d the model draws from

IdAlphabet == Digits \cup {"A", "\n"}

RECURSIVE SeqsUpTo(_, _)
SeqsUpTo(S, n) ==
    IF n = 0 THEN {<<>>}
    ELSE LET shorter == SeqsUpTo(S, n - 1)
         IN  shorter \cup {Append(s, c) : s \in shorter, c \in S}

\* str(x): a string is itself, an int64 cell prints its digits, a float64
\* cell (a numeric column that has a missing value) prints with ".0", and
\* the missing value itself prints as nan.
PyStr(x) ==
    CASE x.kind = "str"   -> x.chars
      [] x.kind = "int"   -> x.chars
      [] x.kind = "float" -> x.chars \o <<".", "0">>
      [] x.kind = "nan"   -> <<"n", "a", "n">>

\* The last two characters of s are c and then a digit.
EndsWithDigitAfter(c, s) ==
    /\ Len(s) >= 2
    /\ s[Len(s) - 1] = c
    /\ s[Len(s)] \in Digits

\* re.search(c + r'\d$', s): Python's $ matches at the end of the string and
\* also just before a newline that is the last character of the string.
ReSearch(c, s) ==
    \/ EndsWithDigitAfter(c, s)
    \/ /\ Len(s) >= 1
       /\ s[Len(s)] = "\n"
       /\ EndsWithDigitAfter(c, SubSeq(s, 1, Len(s) - 1))

UNIDENTIFIED == "Manguera_no_identificada"

ClassifyHandpieceId(x) ==
    IF ReSearch("2", PyStr(x)) THEN "F.F."
    ELSE IF ReSearch("1", PyStr(x)) THEN "M.F."
    ELSE UNIDENTIFIED

(***************************************************************************)
(* Usage Normalizer: process_data, lines 110-125.                          *)
(* A cell of a counter column is an integer, a missing value (NaN) or a    *)
(* non-numeric literal.                                                    *)
(***************************************************************************)
IntCell(n) == [t |-> "int", v |-> n]
NaNCell    == [t |-> "nan", v |-> 0]
StrCell    == [t |-> "str", v |-> 0]

\* (pulse_count / 3).round(0).astype(int) on one integer: p/3 is never a tie,
\* so rounding half to even is rounding to the nearest integer.
RescalePulseMutFloor(p) == p \div 3

RescalePulse(p) == (p + 1) \div 3

\* The division of line 111 is a division of doubles.  The quotients from
\* 2^51 on are spaced by 1/2: a quotient that is no integer is the double
\* q + 1/2, which round(0) takes to the even one of q and q + 1.
\* HugeCell(k) is the count 3 * 2^51 + k, and the rescaled count 2^51 + k.
HugeCell(k) == [t |-> "huge", v |-> k]

RescaleHuge(k) ==
    LET q == k \div 3
    IN  IF k % 3 = 0 \/ q % 2 = 0 THEN q ELSE q + 1

\* Line 111 on one cell that holds an integer.
RescalePulseCount(cell) ==
    IF cell.t = "huge" THEN HugeCell(RescaleHuge(cell.v))
    ELSE IntCell(RescalePulse(cell.v))

\* Lines 111-125 on the counters of one row: the pulse counter rescaled,
\* the four counters under their new names.
NormalizeCounters(row) ==
    [pulso      |-> RescalePulseCount(row.pulse_count),
     rafaga     |-> row.burst_count,
     activacion |-> row.activation_count,
     modulacion |-> row.modulation_count]

(***************************************************************************)
(* Service-Life Estimator: calculate_vida_util, lines 160-184.             *)
(* Quantities are kept doubled, so that the 0.5 weight of the F.F. formula *)
(* stays an integer.                                                       *)
(***************************************************************************)
TotalMF == 4000000
TotalFF == 2000000
PulseWeightMF == 20
PulseWeightFF == 10

\* The ties of the one-decimal rounding.  f"{x:.1f}" rounds the binary double
\* x = remaining / total * 100 correctly, and at an exact decimal tie k.k5
\* the double lies above or below the tie depending on the value: these are
\* the k (in tenths, 0..999) whose tie k + 1/2 is printed as k + 1.
FloatTieUp == {
    0, 3, 6, 7, 8, 10, 13, 14, 15, 16, 17, 20, 23, 24, 27, 28, 33, 34, 37,
    38, 39, 41, 44, 46, 47, 48, 49, 50, 54, 56, 57, 58, 61, 64, 65, 66, 67,
    68, 69, 77, 79, 80, 81, 84, 85, 87, 91, 95, 96, 97, 99, 100, 101, 106,
    107, 110, 111, 114, 115, 116, 117, 121, 125, 126, 127, 129, 130, 131,
    133, 134, 135, 136, 137, 138, 139, 140, 147, 151, 155, 156, 157, 159,
    160, 161, 163, 165, 166, 167, 168, 169, 170, 171, 177, 180, 183, 185,
    187, 188, 190, 193, 195, 196, 197, 198, 199, 200, 201, 207, 210, 215,
    217, 218, 220, 223, 225, 226, 227, 228, 230, 231, 233, 237, 240, 245,
    247, 248, 250, 253, 255, 256, 257, 258, 260, 261, 263, 264, 265, 266,
    267, 268, 269, 270, 271, 272, 273, 274, 275, 276, 277, 278, 279, 280,
    297, 305, 307, 308, 310, 313, 315, 317, 318, 323, 324, 325, 327, 328,
    329, 330, 333, 334, 335, 336, 337, 338, 339, 340, 341, 343, 347, 353,
    357, 358, 363, 367, 368, 369, 373, 374, 377, 378, 379, 383, 384, 385,
    387, 388, 389, 390, 393, 394, 395, 397, 398, 399, 400, 401, 403, 404,
    405, 407, 417, 418, 423, 427, 428, 429, 433, 434, 437, 438, 439, 443,
    444, 447, 448, 449, 450, 453, 454, 455, 457, 458, 459, 460, 461, 463,
    464, 465, 466, 467, 468, 477, 478, 483, 487, 488, 493, 494, 497, 498,
    499, 527, 537, 543, 547, 548, 553, 554, 557, 558, 559, 563, 564, 567,
    568, 569, 573, 574, 575, 577, 578, 579, 580, 583, 584, 585, 586, 587,
    588, 589, 590, 591, 593, 594, 595, 596, 597, 598, 599, 600, 601, 603,
    604, 605, 606, 607, 608, 609, 610, 611, 612, 613, 614, 615, 616, 617,
    618, 619, 620, 621, 622, 623, 624, 644, 647, 649, 654, 657, 659, 664,
    667, 669, 671, 674, 676, 677, 679, 681, 684, 686, 687, 689, 691, 694,
    696, 697, 699, 701, 704, 706, 707, 708, 709, 711, 713, 714, 716, 717,
    718, 719, 721, 723, 724, 726, 727, 728, 729, 731, 733, 734, 735, 736,
    737, 738, 739, 740, 741, 743, 744, 745, 746, 747, 748, 749, 757, 767,
    769, 774, 777, 779, 784, 787, 789, 794, 796, 797, 799, 801, 804, 806,
    807, 809, 811, 814, 816, 817, 819, 821, 824, 826, 827, 829, 831, 833,
    834, 836, 837, 838, 839, 841, 843, 844, 846, 847, 848, 849, 851, 853,
    854, 856, 857, 858, 859, 860, 861, 863, 864, 865, 866, 867, 868, 869,
    870, 871, 873, 874, 877, 887, 894, 897, 899, 904, 907, 909, 914, 917,
    919, 921, 924, 926, 927, 929, 931, 934, 936, 937, 939, 941, 944, 946,
    947, 949, 951, 954, 956, 957, 958, 959, 961, 963, 964, 966, 967, 968,
    969, 971, 973, 974, 976, 977, 978, 979, 981, 983, 984, 985, 986, 987,
    988, 989, 990, 991, 993, 994, 995, 996, 997, 998, 999
    }

\* f"{(remaining / total * 100):.1f}" in tenths of a percent, from the doubled
\* remaining and total.
RoundTenthsMutTruncate(remaining2, total2) ==
    remaining2 \div (total2 \div 1000)

RoundTenths(remaining2, total2) ==
    LET unit == total2 \div 1000
        q    == remaining2 \div unit
        r    == remaining2 % unit
    IN  IF 2 * r < unit THEN q
        ELSE IF 2 * r > unit THEN q + 1
        ELSE IF q \in FloatTieUp THEN q + 1 ELSE q

\* The text of a number of tenths with one decimal and a percent sign.
FormatPct(tenths) ==
    ToString(tenths \div 10) \o "." \o ToString(tenths % 10) \o "%"

CounterCells(row) == {row.pulso, row.rafaga, row.activacion, row.modulacion}

\* used, doubled, for the two classes (lines 167-169 and 173-175).
UsedMF2MutSubtract(row) ==
    2 * (row.pulso.v * PulseWeightMF + row.rafaga.v * 1
         - (row.activacion.v + row.modulacion.v))

UsedMF2(row) ==
    2 * (row.pulso.v * PulseWeightMF + row.rafaga.v * 1
         + (row.activacion.v + row.modulacion.v))

UsedFF2MutFullWeight(row) ==
    2 * (row.pulso.v * PulseWeightFF + row.rafaga.v * 1
         + (row.activacion.v + row.modulacion.v))

UsedFF2(row) ==
    2 * (row.pulso.v * PulseWeightFF + row.rafaga.v * 1)
    + (row.activacion.v + row.modulacion.v)

\* Lines 179-182, after used was computed.  Adding a non-numeric cell to a
\* number raises TypeError, caught by the except of line 183; a NaN cell
\* makes used NaN, the test NaN <= 0 is false and NaN is formatted.
RemainingTextMutNoClamp(total, used2, row) ==
    IF \E c \in CounterCells(row) : c.t = "str" THEN "Error"
    ELSE IF \E c \in CounterCells(row) : c.t = "nan" THEN "nan%"
    ELSE FormatPct(RoundTenths(2 * total - used2, 2 * total))

RemainingText(total, used2, row) ==
    IF \E c \in CounterCells(row) : c.t = "str" THEN "Error"
    ELSE IF \E c \in CounterCells(row) : c.t = "nan" THEN "nan%"
    ELSE IF 2 * total - used2 <= 0 THEN "0%"
    ELSE FormatPct(RoundTenths(2 * total - used2, 2 * total))

calculate_vida_utilMutStrictEnd(row, handpiece_id) ==
    IF EndsWithDigitAfter("1", PyStr(handpiece_id))
    THEN RemainingText(TotalMF, UsedMF2(row), row)
    ELSE IF EndsWithDigitAfter("2", PyStr(handpiece_id))
    THEN RemainingText(TotalFF, UsedFF2(row), row)
    ELSE UNIDENTIFIED

calculate_vida_util(row, handpiece_id) ==
    IF ReSearch("1", PyStr(handpiece_id))
    THEN RemainingText(TotalMF, UsedMF2(row), row)
    ELSE IF ReSearch("2", PyStr(handpiece_id))
    THEN RemainingText(TotalFF, UsedFF2(row), row)
    ELSE UNIDENTIFIED

(***************************************************************************)
(* Tables.  A table is [tz, rows]: the zone its timestamp column carries   *)
(* ("naive" for none, "UTC", or "east", one tick ahead of UTC) and the     *)
(* sequence of its rows.  A timestamp cell is [t, wall]: "ok" with its     *)
(* wall-clock reading in ticks, or "bad" when pd.to_datetime cannot parse  *)
(* it.  Every timestamp of a column carries the column's zone: columns of  *)
(* mixed zones are not drawn.                                              *)
(***************************************************************************)
TicksPerDay == 2
ActiveDays == 30

OkTime(w) == [t |-> "ok", wall |-> w]
BadTime   == [t |-> "bad", wall |-> 0]

TzOffset(tz) == IF tz = "east" THEN 1 ELSE 0

\* The instant of a wall-clock reading in a zone; a naive reading is UTC.
Instant(wall, tz) == wall - TzOffset(tz)

\* dt.tz_localize('UTC') of a naive column, lines 191-192 and 240-241.
Localize(tz) == IF tz = "naive" THEN "UTC" ELSE tz

\* pd.DataFrame(), what the except branches return: a frame without columns,
\* told from a table that has its columns and no rows by the zone "none".
EmptyFrame == [tz |-> "none", rows |-> <<>>]

\* A frame without columns: reading a column of it raises KeyError.
NoColumns(df) == df = EmptyFrame

\* row put into a sequence sorted by instant descending, after the rows whose
\* instant is greater or equal.
InsertDesc(sorted, row, tz) ==
    LET Key(r) == Instant(r.fecha_uso.wall, tz)
        p == Cardinality({i \in DOMAIN sorted : Key(sorted[i]) >= Key(row)})
    IN  SubSeq(sorted, 1, p) \o <<row>> \o SubSeq(sorted, p + 1, Len(sorted))

\* row put into a sequence sorted by instant ascending.
InsertAsc(sorted, row, tz) ==
    LET Key(r) == Instant(r.fecha_uso.wall, tz)
        p == Cardinality({i \in DOMAIN sorted : Key(sorted[i]) <= Key(row)})
    IN  SubSeq(sorted, 1, p) \o <<row>> \o SubSeq(sorted, p + 1, Len(sorted))

SortDescMutAscending(rows, tz) ==
    LET sorted[n \in 0..Len(rows)] ==
            IF n = 0 THEN <<>> ELSE InsertAsc(sorted[n - 1], rows[n], tz)
    IN  sorted[Len(rows)]

\* sort_values(by='fecha_uso', ascending=False): the short tables of the
\* model are sorted by insertion, rows of equal instant keeping their order.
SortDesc(rows, tz) ==
    LET sorted[n \in 0..Len(rows)] ==
            IF n = 0 THEN <<>> ELSE InsertDesc(sorted[n - 1], rows[n], tz)
    IN  sorted[Len(rows)]

(***************************************************************************)
(* Temporal Filter of the handpieces: process_handpiece_dates, 186-213.    *)
(***************************************************************************)
\* Line 202: the status of a timestamp at instant x.
EstadoMutInclusive(today, x) ==
    IF (today - x) \div TicksPerDay <= ActiveDays THEN "ACTIVO" ELSE "INACTIVO"

Estado(today, x) ==
    IF (today - x) \div TicksPerDay < ActiveDays THEN "ACTIVO" ELSE "INACTIVO"

HandpieceDatesError == "Error processing handpiece dates"

\* Lines 195-197: the rows at or after the cutoff.
KeepFromCutoffMutStrict(rows, tz, cutoff_date) ==
    LET Keep(r) == Instant(r.fecha_uso.wall, tz)
                       > Instant(cutoff_date.wall, cutoff_date.tz)
    IN  SelectSeq(rows, Keep)

KeepFromCutoff(rows, tz, cutoff_date) ==
    LET Keep(r) == Instant(r.fecha_uso.wall, tz)
                       >= Instant(cutoff_date.wall, cutoff_date.tz)
    IN  SelectSeq(rows, Keep)

process_handpiece_datesMutSkipBad(filtered_handpiece_df, cutoff_date, today) ==
    IF NoColumns(filtered_handpiece_df) \/ cutoff_date.tz = "naive"
    THEN [df |-> EmptyFrame, errors |-> <<HandpieceDatesError>>]
    ELSE LET tz     == Localize(filtered_handpiece_df.tz)
             Key(r) == Instant(r.fecha_uso.wall, tz)
             Good(r) == r.fecha_uso.t # "bad"
             kept   == SortDesc(KeepFromCutoff(
                           SelectSeq(filtered_handpiece_df.rows, Good),
                           tz, cutoff_date), tz)
         IN  [df     |-> [tz |-> tz,
                          rows |-> [i \in DOMAIN kept |->
                              [fecha_uso     |-> kept[i].fecha_uso,
                               estado        |-> Estado(today, Key(kept[i])),
                               din           |-> kept[i].din,
                               tipo_manipulo |-> kept[i].tipo_manipulo,
                               numero_serie  |-> kept[i].numero_serie,
                               vida_util     |-> kept[i].vida_util,
                               pulso         |-> kept[i].pulso,
                               rafaga        |-> kept[i].rafaga,
                               activacion    |-> kept[i].activacion,
                               modulacion    |-> kept[i].modulacion]]],
              errors |-> <<>>]

\* The function proper, given the clock.  It returns the table and the
\* messages it displayed.  A frame without a fecha_uso column, an unparsable
\* timestamp, or the comparison of the zoned column with a naive cutoff,
\* raises inside the try.
process_handpiece_dates(filtered_handpiece_df, cutoff_date, today) ==
    IF \/ NoColumns(filtered_handpiece_df)
       \/ \E i \in DOMAIN filtered_handpiece_df.rows :
              filtered_handpiece_df.rows[i].fecha_uso.t = "bad"
       \/ cutoff_date.tz = "naive"
    THEN [df |-> EmptyFrame, errors |-> <<HandpieceDatesError>>]
    ELSE LET tz     == Localize(filtered_handpiece_df.tz)
             Key(r) == Instant(r.fecha_uso.wall, tz)
             kept   == SortDesc(KeepFromCutoff(filtered_handpiece_df.rows,
                                               tz, cutoff_date), tz)
             WithEstado(r) ==
                 [fecha_uso     |-> r.fecha_uso,
                  estado        |-> Estado(today, Key(r)),
                  din           |-> r.din,
                  tipo_manipulo |-> r.tipo_manipulo,
                  numero_serie  |-> r.numero_serie,
                  vida_util     |-> r.vida_util,
                  pulso         |-> r.pulso,
                  rafaga        |-> r.rafaga,
                  activacion    |-> r.activacion,
                  modulacion    |-> r.modulacion]
         IN  [df     |-> [tz |-> tz,
                          rows |-> [i \in DOMAIN kept |-> WithEstado(kept[i])]],
              errors |-> <<>>]

\* Lines 190-192 assign the parsed column, and then the localized one, into
\* the frame the caller passed: the argument as the call leaves it.  When
\* pd.to_datetime raises, nothing has been assigned yet.
DatesArgumentAfter(filtered_handpiece_df) ==
    IF \/ NoColumns(filtered_handpiece_df)
       \/ \E i \in DOMAIN filtered_handpiece_df.rows :
              filtered_handpiece_df.rows[i].fecha_uso.t = "bad"
    THEN filtered_handpiece_df
    ELSE [filtered_handpiece_df EXCEPT !.tz = Localize(@)]

(***************************************************************************)
(* Treatment Joiner: process_treatments, lines 215-252.                    *)
(* A missing text is "NaN", as read_csv reads it; prices and sequence      *)
(* steps are cells, the sequence step counted in tenths (1.0 is 10).       *)
(***************************************************************************)
DefaultTipo        == "FHOS"
DefaultSubprograma == "FHOS genérico"
DefaultPVP         == 60
DefaultSecuencia10 == 10

TreatmentsError == "Error processing treatments"

RECURSIVE MergeLeft(_, _)
\* Lines 220-225: merge(how='left', left_on='code', right_on='Treatment_ID').
\* A left row is paired with every lookup row of its code, in lookup order,
\* and with an all-missing lookup row when there is none.
MergeLeft(left, right) ==
    IF left = <<>> THEN <<>>
    ELSE LET l == Head(left)
             Match(r) == r.Treatment_ID = l.code
             Pair(r) ==
                 [din |-> l.din, code |-> l.code, reported_at |-> l.reported_at,
                  Treatment_ID |-> r.Treatment_ID, Tipo |-> r.Tipo,
                  Subtipo |-> r.Subtipo, Subprograma |-> r.Subprograma,
                  PVP |-> r.PVP, Secuencia |-> r.Secuencia]
             matches == SelectSeq(right, Match)
             Unmatched ==
                 [Treatment_ID |-> "NaN", Tipo |-> "NaN", Subtipo |-> "NaN",
                  Subprograma |-> "NaN", PVP |-> NaNCell, Secuencia |-> NaNCell]
         IN  (IF matches = <<>> THEN <<Pair(Unmatched)>>
              ELSE [i \in DOMAIN matches |-> Pair(matches[i])])
             \o MergeLeft(Tail(left), right)

FillText(x, default) == IF x = "NaN" THEN default ELSE x
FillCell(c, default) == IF c.t = "nan" THEN IntCell(default) ELSE c

\* Lines 228-233: the four fillna of the joined row.
FillDefaultsMutOverwrite(r) ==
    [r EXCEPT !.Tipo        = DefaultTipo,
              !.Subprograma = DefaultSubprograma,
              !.PVP         = IntCell(DefaultPVP),
              !.Secuencia   = IntCell(DefaultSecuencia10)]

FillDefaults(r) ==
    [r EXCEPT !.Tipo        = FillText(@, DefaultTipo),
              !.Subprograma = FillText(@, DefaultSubprograma),
              !.PVP         = FillCell(@, DefaultPVP),
              !.Secuencia   = FillCell(@, DefaultSecuencia10)]

\* The join of lines 220-233 on the whole treatment table.
JoinTreatmentsMutInner(rows, lookup) ==
    LET Matched(r) == r.Treatment_ID # "NaN"
        merged == SelectSeq(MergeLeft(rows, lookup), Matched)
    IN  [i \in DOMAIN merged |-> FillDefaults(merged[i])]

JoinTreatmentsMutReversed(rows, lookup) ==
    LET merged == MergeLeft(rows, lookup)
    IN  [i \in DOMAIN merged |-> FillDefaults(merged[Len(merged) + 1 - i])]

JoinTreatments(rows, lookup) ==
    LET merged == MergeLeft(rows, lookup)
    IN  [i \in DOMAIN merged |-> FillDefaults(merged[i])]

process_treatments(_treatments_df, lookup, din, cutoff_date) ==
    LET joined == JoinTreatments(_treatments_df.rows, lookup)
        OfDin(r) == r.din = din
        filtered == SelectSeq(joined, OfDin)
    IN  IF \/ \E i \in DOMAIN filtered : filtered[i].reported_at.t = "bad"
           \/ cutoff_date.tz = "naive"
        THEN [df |-> EmptyFrame, errors |-> <<TreatmentsError>>]
        ELSE LET tz == Localize(_treatments_df.tz)
                 Keep(r) == Instant(r.reported_at.wall, tz)
                                >= Instant(cutoff_date.wall, cutoff_date.tz)
             IN  [df     |-> [tz |-> tz, rows |-> SelectSeq(filtered, Keep)],
                  errors |-> <<>>]

(***************************************************************************)
(* process_data, lines 90-158, and the st.cache_data stores around it.     *)
(***************************************************************************)
\* Lines 106-108: a naive cutoff is read as UTC.
NormalizeCutoff(cutoff_date) == [cutoff_date EXCEPT !.tz = Localize(@)]

\* Line 111 raises, outside any try, when a pulse_count cell is missing
\* (astype(int) of NaN) or is not a number (division of a text by 3).
PulseFault(rows) == \E i \in DOMAIN rows : rows[i].pulse_count.t # "int"

\* Lines 111-145 on one row: rescale, rename, estimate, classify.
NormalizeUsage(row) ==
    LET usage == [pulso      |-> IntCell(RescalePulse(row.pulse_count.v)),
                  rafaga     |-> row.burst_count,
                  activacion |-> row.activation_count,
                  modulacion |-> row.modulation_count]
    IN  [fecha_uso     |-> row.created_at,
         din           |-> row.din,
         tipo_manipulo |-> ClassifyHandpieceId(row.handpiece_id),
         numero_serie  |-> row.serial_number,
         vida_util     |-> calculate_vida_util(usage, row.handpiece_id),
         pulso         |-> usage.pulso,
         rafaga        |-> usage.rafaga,
         activacion    |-> usage.activacion,
         modulacion    |-> usage.modulacion]

\* Lines 148-149: handpiece_df[handpiece_df['din'] == din].
HandpiecesOfDin(rows, din) ==
    LET OfDin(r) == r.din = din
    IN  SelectSeq(rows, OfDin)

Raised == [raised |-> TRUE, hp |-> EmptyFrame, tr |-> EmptyFrame,
           errors |-> <<>>]

\* The body of process_data run at clock today with the store dates_cache of
\* process_handpiece_dates: what it returns (or that it raised) and the
\* store after.
\* process_treatments and calculate_vida_util are memoised too; they read
\* nothing but their arguments, so their stores are not modelled.
process_data(_handpiece_df, _treatments_df, ids_df, din, cutoff_date, today, dates_cache) ==
    IF PulseFault(_handpiece_df.rows)
    THEN [value |-> Raised, dates_cache |-> dates_cache]
    ELSE LET cutoff == NormalizeCutoff(cutoff_date)
             usage  == [i \in DOMAIN _handpiece_df.rows |->
                           NormalizeUsage(_handpiece_df.rows[i])]
             arg    == [tz |-> _handpiece_df.tz,
                        rows |-> HandpiecesOfDin(usage, din)]
             key    == [filtered_handpiece_df |-> arg, cutoff_date |-> cutoff]
             hp     == IF key \in DOMAIN dates_cache THEN dates_cache[key]
                       ELSE process_handpiece_dates(arg, cutoff, today)
             tr     == process_treatments(_treatments_df, ids_df, din, cutoff)
         IN  [value |-> [raised |-> FALSE, hp |-> hp.df, tr |-> tr.df,
                         errors |-> hp.errors \o tr.errors],
              dates_cache |-> (key :> hp) @@ dates_cache]

(***************************************************************************)
(* The legacy variant: process_data of src/app.py, lines 69-175.  It has   *)
(* no remaining-life column, names the timestamp ultima_fecha_uso and the  *)
(* counters disparos_*, and is not memoised.                               *)
(***************************************************************************)
LegacyDatesError      == "Error converting dates"
LegacyTreatmentsError == "Error converting treatment dates"

\* src/app.py lines 80-120 on one row: rescale, rename, classify.
LegacyNormalizeUsage(row) ==
    [ultima_fecha_uso    |-> row.created_at,
     din                 |-> row.din,
     tipo_manipulo       |-> ClassifyHandpieceId(row.handpiece_id),
     numero_serie        |-> row.serial_number,
     disparos_pulso      |-> IntCell(RescalePulse(row.pulse_count.v)),
     disparos_rafaga     |-> row.burst_count,
     disparos_activacion |-> row.activation_count,
     disparos_modulacion |-> row.modulation_count]

LegacyInsertDesc(sorted, row, tz) ==
    LET Key(r) == Instant(r.ultima_fecha_uso.wall, tz)
        p == Cardinality({i \in DOMAIN sorted : Key(sorted[i]) >= Key(row)})
    IN  SubSeq(sorted, 1, p) \o <<row>> \o SubSeq(sorted, p + 1, Len(sorted))

\* src/app.py line 138: sort_values(by='ultima_fecha_uso', ascending=False).
LegacySortDesc(rows, tz) ==
    LET sorted[n \in 0..Len(rows)] ==
            IF n = 0 THEN <<>> ELSE LegacyInsertDesc(sorted[n - 1], rows[n], tz)
    IN  sorted[Len(rows)]

\* src/app.py lines 122-148: the handpiece rows of the device from the
\* cutoff on, latest first, with their status.  The timestamps parse.
LegacyHandpieces(rows, tz, cutoff, today) ==
    LET Key(r) == Instant(r.ultima_fecha_uso.wall, tz)
        Keep(r) == Key(r) >= Instant(cutoff.wall, cutoff.tz)
        kept == LegacySortDesc(SelectSeq(rows, Keep), tz)
        WithEstado(r) ==
            [ultima_fecha_uso    |-> r.ultima_fecha_uso,
             estado              |-> Estado(today, Key(r)),
             din                 |-> r.din,
             tipo_manipulo       |-> r.tipo_manipulo,
             numero_serie        |-> r.numero_serie,
             disparos_pulso      |-> r.disparos_pulso,
             disparos_rafaga     |-> r.disparos_rafaga,
             disparos_activacion |-> r.disparos_activacion,
             disparos_modulacion |-> r.disparos_modulacion]
    IN  [tz |-> tz, rows |-> [i \in DOMAIN kept |-> WithEstado(kept[i])]]

\* src/app.py lines 150-173: the joined treatments of the device from the
\* cutoff on.  The timestamps parse.
LegacyTreatments(rows, tz, cutoff) ==
    LET Keep(r) == Instant(r.reported_at.wall, tz)
                       >= Instant(cutoff.wall, cutoff.tz)
    IN  [tz |-> tz, rows |-> SelectSeq(rows, Keep)]

\* The body of the legacy process_data at clock today.  Line 80 raises as
\* line 111 of the canonical variant does.  A handpiece timestamp that does
\* not parse returns two frames without columns, before the treatments are
\* looked at (line 133); a treatment timestamp that does not parse returns
\* the handpiece table and a frame without columns (line 169).
legacy_process_data(_handpiece_df, _treatments_df, ids_df, din, cutoff_date, today) ==
    IF PulseFault(_handpiece_df.rows) THEN Raised
    ELSE LET cutoff == NormalizeCutoff(cutoff_date)
             OfDin(r) == r.din = din
             usage == [i \in DOMAIN _handpiece_df.rows |->
                          LegacyNormalizeUsage(_handpiece_df.rows[i])]
             filtered_handpiece_df == SelectSeq(usage, OfDin)
             joined == JoinTreatments(_treatments_df.rows, ids_df)
             filtered_treatments_df == SelectSeq(joined, OfDin)
             hp == LegacyHandpieces(filtered_handpiece_df,
                                    Localize(_handpiece_df.tz), cutoff, today)
         IN  IF \E i \in DOMAIN filtered_handpiece_df :
                    filtered_handpiece_df[i].ultima_fecha_uso.t = "bad"
             THEN [raised |-> FALSE, hp |-> EmptyFrame, tr |-> EmptyFrame,
                   errors |-> <<LegacyDatesError>>]
             ELSE IF \E i \in DOMAIN filtered_treatments_df :
                         filtered_treatments_df[i].reported_at.t = "bad"
             THEN [raised |-> FALSE, hp |-> hp, tr |-> EmptyFrame,
                   errors |-> <<LegacyTreatmentsError>>]
             ELSE [raised |-> FALSE, hp |-> hp,
                   tr |-> LegacyTreatments(filtered_treatments_df,
                                           Localize(_treatments_df.tz), cutoff),
                   errors |-> <<>>]

(***************************************************************************)
(* Aggregator: create_treatment_summary, create_program_summary and        *)
(* create_subprogram_summary, lines 254-327.  A summary is a sequence of   *)
(* rows; percentages are cells counted in hundredths (12.5 is 1250).       *)
(***************************************************************************)
SummaryErrorTipo        == "Error creating treatment summary"
SummaryErrorSubtipo     == "Error creating program summary"
SummaryErrorSubprograma == "Error creating subprogram summary"

\* pd.DataFrame(), the frame the stages return on a fault, has no columns:
\* reading its 'Secuencia' column raises KeyError (NoColumns).

\* df[df['Secuencia'] == 1.0]: a missing or non-numeric cell is not 1.0.
FirstStepRowsMutAllSteps(rows) == rows

FirstStepRows(rows) ==
    LET First(r) == r.Secuencia = IntCell(10)
    IN  SelectSeq(rows, First)

\* The rows of one group: groupby drops the rows whose key is missing.
GroupRows(rows, dimension, key) ==
    LET OfKey(r) == r[dimension] = key
    IN  SelectSeq(rows, OfKey)

GroupKeys(rows, dimension) ==
    {rows[i][dimension] : i \in DOMAIN rows} \ {"NaN"}

\* PVP=('PVP', 'sum'): the sum of the prices present; a missing price is
\* skipped.
SumPVP(rows) ==
    LET sum[i \in 0..Len(rows)] ==
            IF i = 0 THEN 0
            ELSE sum[i - 1] + (IF rows[i].PVP.t = "int" THEN rows[i].PVP.v
                               ELSE 0)
    IN  sum[Len(rows)]

\* A price that is a text makes the sum or the division raise TypeError.
PriceFault(rows, dimension) ==
    \E i \in DOMAIN rows :
        rows[i][dimension] # "NaN" /\ rows[i].PVP.t = "str"

\* round(n / d) to the nearest integer, halves to the even neighbour.
RoundHalfEven(n, d) ==
    LET q == n \div d
        r == n % d
    IN  IF 2 * r < d THEN q
        ELSE IF 2 * r > d THEN q + 1
        ELSE IF q % 2 = 0 THEN q ELSE q + 1

\* (part / total * 100).round(2): a division by zero raises nothing, it
\* gives NaN (0 / 0).
Percentage(part, total) ==
    IF total = 0 THEN NaNCell
    ELSE IntCell(RoundHalfEven(part * 10000, total))

\* Lines 263-274 before the sort: one row per group, with its count, its
\* summed price and the two percentages.
SummaryGroups(rows, dimension) ==
    LET first == FirstStepRows(rows)
        keys  == GroupKeys(first, dimension)
        Cantidad(k) == Len(GroupRows(first, dimension, k))
        PVP(k) == SumPVP(GroupRows(first, dimension, k))
        total_cantidad == Len(SelectSeq(first, LAMBDA r : r[dimension] \in keys))
        total_pvp == SumPVP(SelectSeq(first, LAMBDA r : r[dimension] \in keys))
    IN  {[key |-> k, Cantidad |-> Cantidad(k), PVP |-> PVP(k),
          PctTratamientos |-> Percentage(Cantidad(k), total_cantidad),
          PctIngresos |-> Percentage(PVP(k), total_pvp)] : k \in keys}

\* sort_values(by='Cantidad', ascending=False) with the default kind,
\* quicksort, which is not stable: the groups by count descending, groups
\* of equal count in any order.
SortByCantidadMutAscending(groups) ==
    {s \in [1..Cardinality(groups) -> groups] :
        /\ \A i, j \in DOMAIN s : i # j => s[i] # s[j]
        /\ \A i, j \in DOMAIN s : i < j => s[i].Cantidad <= s[j].Cantidad}

SortByCantidad(groups) ==
    {s \in [1..Cardinality(groups) -> groups] :
        /\ \A i, j \in DOMAIN s : i # j => s[i] # s[j]
        /\ \A i, j \in DOMAIN s : i < j => s[i].Cantidad >= s[j].Cantidad}

\* The results a summary function can return for one frame.
create_summary(filtered_treatments_df, dimension, message) ==
    IF \/ NoColumns(filtered_treatments_df)
       \/ PriceFault(FirstStepRows(filtered_treatments_df.rows), dimension)
    THEN {[df |-> <<>>, errors |-> <<message>>]}
    ELSE {[df |-> s, errors |-> <<>>] :
            s \in SortByCantidad(
                     SummaryGroups(filtered_treatments_df.rows, dimension))}

create_treatment_summary(filtered_treatments_df) ==
    create_summary(filtered_treatments_df, "Tipo", SummaryErrorTipo)

create_program_summary(filtered_treatments_df) ==
    create_summary(filtered_treatments_df, "Subtipo", SummaryErrorSubtipo)

create_subprogram_summary(filtered_treatments_df) ==
    create_summary(filtered_treatments_df, "Subprograma",
                   SummaryErrorSubprograma)

(***************************************************************************)
(* Cutoff hints: convert_excel_date, lines 31-39, and                      *)
(* get_suggested_cutoff_date, lines 59-77.  A cell of the fecha_corte      *)
(* column of datos_drv_it.csv is an integer serial, a float serial (kept   *)
(* in ticks), a text of digits, a missing value or another text.           *)
(***************************************************************************)
FloatCell(ticks) == [t |-> "float", v |-> ticks]
DigitsCell(n)    == [t |-> "digits", v |-> n]

NaT == [t |-> "NaT", wall |-> 0]

\* The days from 1899-12-30, the origin of line 36, to 2023-01-01.
MinDateSerial == 44927

\* pd.Timestamp('2023-01-01', tz='UTC'), lines 70 and 77.
min_date == [wall |-> MinDateSerial * TicksPerDay, tz |-> "UTC"]

\* Lines 34-39, with instants counted from 1899-12-30: a number or a text
\* of digits is a count of days, anything else is NaT; the days of a
\* missing value (float NaN) give NaT.
convert_excel_date(excel_date) ==
    CASE excel_date.t \in {"int", "digits"} ->
             OkTime(excel_date.v * TicksPerDay)
      [] excel_date.t = "float" -> OkTime(excel_date.v)
      [] OTHER -> NaT

\* Line 52: drv_df['fecha_corte'].apply(convert_excel_date).
ConvertHints(drv_df) ==
    [drv_df EXCEPT !.rows = [i \in DOMAIN @ |->
        [@[i] EXCEPT !.fecha_corte = convert_excel_date(@)]]]

\* Lines 61-77.  The first row of the device is read; a table without a
\* 'din' column raises KeyError and a device without row IndexError, both
\* answered with min_date.  The naive date is read as UTC.
get_suggested_cutoff_dateMutNoFloor(_drv_df, din) ==
    LET OfDin(r) == r.din = din
        hints == SelectSeq(_drv_df.rows, OfDin)
    IN  IF ~_drv_df.has_din \/ hints = <<>> THEN min_date
        ELSE IF hints[1].fecha_corte = NaT THEN min_date
        ELSE [wall |-> hints[1].fecha_corte.wall, tz |-> "UTC"]

get_suggested_cutoff_date(_drv_df, din) ==
    LET OfDin(r) == r.din = din
        hints == SelectSeq(_drv_df.rows, OfDin)
    IN  IF ~_drv_df.has_din \/ hints = <<>> THEN min_date
        ELSE LET fecha_corte == hints[1].fecha_corte
             IN  IF fecha_corte = NaT \/ fecha_corte.wall < min_date.wall
                 THEN min_date
                 ELSE [wall |-> fecha_corte.wall, tz |-> "UTC"]

(***************************************************************************)
(* load_data, lines 41-57.  Each of the four values returned is a table or *)
(* None; files tells, for each CSV file, whether it can be read and what   *)
(* it holds.                                                               *)
(***************************************************************************)
Some(table)     == [present |-> TRUE, value |-> table]
Absent(default) == [present |-> FALSE, value |-> default]

NoHints == [has_din |-> FALSE, rows |-> <<>>]

LoadError == "Error loading data"

\* Line 56: return None, None, None, None.
NothingLoaded ==
    [handpiece_df     |-> Absent(EmptyFrame),
     drv_df           |-> Absent(NoHints),
     treatments_df    |-> Absent(EmptyFrame),
     treatments_id_df |-> Absent(<<>>),
     errors           |-> <<LoadError>>]

\* A file that is missing or is no CSV makes read_csv raise; a hints file
\* without 'fecha_corte' column makes line 52 raise KeyError.
LoadFault(files) ==
    \/ files.handpieces.state # "ok"
    \/ files.datos_drv_it.state # "ok"
    \/ files.treatments.state # "ok"
    \/ files.treatments_id.state # "ok"

load_dataMutPartial(files) ==
    [handpiece_df     |-> IF files.handpieces.state = "ok"
                          THEN Some(files.handpieces.table)
                          ELSE Absent(EmptyFrame),
     drv_df           |-> IF files.datos_drv_it.state = "ok"
                          THEN Some(ConvertHints(files.datos_drv_it.table))
                          ELSE Absent(NoHints),
     treatments_df    |-> IF files.treatments.state = "ok"
                          THEN Some(files.treatments.table)
                          ELSE Absent(EmptyFrame),
     treatments_id_df |-> IF files.treatments_id.state = "ok"
                          THEN Some(files.treatments_id.table)
                          ELSE Absent(<<>>),
     errors           |-> IF LoadFault(files) THEN <<LoadError>> ELSE <<>>]

load_data(files) ==
    IF LoadFault(files) THEN NothingLoaded
    ELSE [handpiece_df     |-> Some(files.handpieces.table),
          drv_df           |-> Some(ConvertHints(files.datos_drv_it.table)),
          treatments_df    |-> Some(files.treatments.table),
          treatments_id_df |-> Some(files.treatments_id.table),
          errors           |-> <<>>]

\* Line 615: all(df is not None for df in [...]).
AllLoaded(loaded) ==
    /\ loaded.handpiece_df.present
    /\ loaded.drv_df.present
    /\ loaded.treatments_df.present
    /\ loaded.treatments_id_df.present

(***************************************************************************)
(* The inputs the pure functions are applied to.                           *)
(***************************************************************************)
StrId(chars) == [kind |-> "str", chars |-> chars]

IdPrefixes == {<<>>, <<"X", "Y", "Z", "-">>}

DigitSeqs == SeqsUpTo(Digits, MaxIdLen) \ {<<>>}

RawIds ==
    {StrId(p \o s) : p \in IdPrefixes, s \in SeqsUpTo(IdAlphabet, MaxIdLen)}
    \cup {[kind |-> k, chars |-> d] : k \in {"int", "float"}, d \in DigitSeqs}
    \cup {[kind |-> "nan", chars |-> <<>>]}

Extras == 0..MaxExtra

PulsoValues      == {b + e : b \in {0, 100, 100000, 200000}, e \in Extras}
RafagaValues     == {b + e : b \in {0, 2000, 4000000}, e \in Extras}
ActivacionValues == {b + e : b \in {0, 1000}, e \in Extras}
ModulacionValues == {b + e : b \in {0}, e \in Extras}

UsageRows ==
    [pulso      : {IntCell(n) : n \in PulsoValues},
     rafaga     : {IntCell(n) : n \in RafagaValues} \cup {NaNCell, StrCell},
     activacion : {IntCell(n) : n \in ActivacionValues},
     modulacion : {IntCell(n) : n \in ModulacionValues}]

VidaIds == {StrId(<<"X", "Y", "Z", "-", "1", "9">>),
            StrId(<<"X", "Y", "Z", "-", "2", "9">>),
            StrId(<<"X", "Y", "Z", "-", "0", "0">>)}

\* Nothing rendered: "Analizar" was not pressed in this run (line 663).
NoPage == [view |-> "none", treatment_summary |-> <<>>,
           program_summary |-> <<>>, subprogram_summary |-> <<>>,
           rendered |-> {}, errors |-> <<>>]

NoTables ==
    /\ handpiece_df = <<>>
    /\ treatments_df = <<>>
    /\ treatments_id_df = <<>>
    /\ now = 0
    /\ cache_process_data = <<>>
    /\ cache_handpiece_dates = <<>>
    /\ page = NoPage

tables == <<handpiece_df, treatments_df, treatments_id_df>>
caches == <<cache_process_data, cache_handpiece_dates>>

(***************************************************************************)
(* The Identity Classifier applied to one raw identifier.                  *)
(***************************************************************************)
InitClassify ==
    /\ NoTables
    /\ pc = "ready"
    /\ call \in {[fn |-> "classify", x |-> x] : x \in RawIds}
    /\ result = [val |-> "none"]

Classify ==
    /\ pc = "ready"
    /\ call.fn = "classify"
    /\ result' = [val |-> ClassifyHandpieceId(call.x)]
    /\ pc' = "done"
    /\ UNCHANGED <<tables, now, caches, call, page>>

SpecClassify == InitClassify /\ [][Classify]_vars

(***************************************************************************)
(* The Service-Life Estimator applied to one normalized row.               *)
(***************************************************************************)
InitVida ==
    /\ NoTables
    /\ pc = "ready"
    /\ call \in {[fn |-> "calculate_vida_util", row |-> r, handpiece_id |-> x] :
                    r \in UsageRows, x \in VidaIds}
    /\ result = [val |-> "none"]

CalculateVidaUtil ==
    /\ pc = "ready"
    /\ call.fn = "calculate_vida_util"
    /\ result' = [val |-> calculate_vida_util(call.row, call.handpiece_id)]
    /\ pc' = "done"
    /\ UNCHANGED <<tables, now, caches, call, page>>

SpecVida == InitVida /\ [][CalculateVidaUtil]_vars

(***************************************************************************)
(* The dashboard: main, lines 612-674.  The tables are loaded once         *)
(* (load_data is memoised without arguments) and every press of "Analizar" *)
(* calls process_data for a device and a cutoff.                           *)
(***************************************************************************)
MaxRows == 2        \* longest handpiece or treatment table drawn
MaxLookup == 2      \* longest lookup table drawn
MaxWall == 2        \* latest wall-clock reading of a drawn timestamp
MaxTicks == 2       \* how far the clock advances

DINs == {"D1", "D2"}

TableZones == {"naive", "UTC", "east"}

\* The cutoffs requested: the same instant, one tick after the earliest
\* timestamp drawn, given naive, in UTC and in the zone one tick east.
Cutoffs == {[wall |-> 1, tz |-> "naive"], [wall |-> 1, tz |-> "UTC"],
            [wall |-> 2, tz |-> "east"]}

\* The clock at start: at the epoch of the timestamps, or ActiveDays after it.
NowStarts == {0, ActiveDays * TicksPerDay}

MainId == StrId(<<"1", "9">>)

HandpieceRow(din, pulse, burst, created_at) ==
    [din |-> din, handpiece_id |-> MainId, serial_number |-> "S1",
     pulse_count |-> pulse, burst_count |-> burst,
     activation_count |-> IntCell(0), modulation_count |-> IntCell(0),
     created_at |-> created_at]

TreatmentRow(din, code, reported_at) ==
    [din |-> din, code |-> code, reported_at |-> reported_at]

LookupRow(id, tipo, subtipo, subprograma, pvp, secuencia) ==
    [Treatment_ID |-> id, Tipo |-> tipo, Subtipo |-> subtipo,
     Subprograma |-> subprograma, PVP |-> pvp, Secuencia |-> secuencia]

Times == {OkTime(w) : w \in 0..MaxWall} \cup {BadTime}

\* Rows that differ in device and timestamp.
TimedHandpieceRows ==
    {HandpieceRow(d, IntCell(300), IntCell(0), t) : d \in DINs, t \in Times}

\* Rows that differ in device and in the state of two counters.
CounterCellsDrawn(n) == {IntCell(n), NaNCell, StrCell}

FaultyHandpieceRows ==
    {HandpieceRow(d, p, b, OkTime(1)) :
        d \in DINs, p \in CounterCellsDrawn(300), b \in CounterCellsDrawn(4000)}

TimedTreatmentRows == {TreatmentRow(d, "T1", t) : d \in DINs, t \in Times}

CodedTreatmentRows ==
    {TreatmentRow(d, c, OkTime(1)) : d \in DINs, c \in {"T1", "T9"}}

LookupRows ==
    {LookupRow("T1", "Depilacion", "Laser", "Axilas", IntCell(25), IntCell(10)),
     LookupRow("T1", "NaN", "NaN", "NaN", NaNCell, NaNCell),
     LookupRow("T2", "FHOS", "Facial", "Activacion", IntCell(50), IntCell(20))}

DefaultHandpieces ==
    [tz |-> "UTC",
     rows |-> <<HandpieceRow("D1", IntCell(300), IntCell(0), OkTime(1))>>]

DefaultTreatments ==
    [tz |-> "UTC", rows |-> <<TreatmentRow("D1", "T1", OkTime(1))>>]

DefaultLookup ==
    <<LookupRow("T1", "Depilacion", "Laser", "Axilas", IntCell(25), IntCell(10))>>

EmptyCaches ==
    /\ cache_process_data = <<>>
    /\ cache_handpiece_dates = <<>>

BeforeFirstCall ==
    /\ EmptyCaches
    /\ pc = "ready"
    /\ call = [fn |-> "none"]
    /\ result = [value |-> Raised, hit |-> FALSE]
    /\ page = NoPage

\* The handpiece table varies in devices, timestamps and zone.
InitTimedHandpieces ==
    /\ handpiece_df \in [tz : TableZones,
                         rows : SeqsUpTo(TimedHandpieceRows, MaxRows)]
    /\ treatments_df = DefaultTreatments
    /\ treatments_id_df = DefaultLookup
    /\ now \in NowStarts
    /\ BeforeFirstCall

\* The handpiece table varies in devices and in missing or non-numeric counters.
InitFaultyHandpieces ==
    /\ handpiece_df \in [tz : {"UTC"},
                         rows : SeqsUpTo(FaultyHandpieceRows, MaxRows)]
    /\ treatments_df = DefaultTreatments
    /\ treatments_id_df = DefaultLookup
    /\ now = 0
    /\ BeforeFirstCall

\* The treatment table varies in devices, timestamps and zone.
InitTimedTreatments ==
    /\ handpiece_df = DefaultHandpieces
    /\ treatments_df \in [tz : TableZones,
                          rows : SeqsUpTo(TimedTreatmentRows, MaxRows)]
    /\ treatments_id_df = DefaultLookup
    /\ now = 0
    /\ BeforeFirstCall

\* The treatment table varies in devices and codes, and the lookup table varies.
InitCodedTreatments ==
    /\ handpiece_df = DefaultHandpieces
    /\ treatments_df \in [tz : {"UTC"},
                          rows : SeqsUpTo(CodedTreatmentRows, MaxRows)]
    /\ treatments_id_df \in SeqsUpTo(LookupRows, MaxLookup)
    /\ now = 0
    /\ BeforeFirstCall

Init ==
    \/ InitTimedHandpieces
    \/ InitFaultyHandpieces
    \/ InitTimedTreatments
    \/ InitCodedTreatments

\* The clock advances by one tick.
Tick ==
    /\ \E start \in NowStarts : start <= now /\ now < start + MaxTicks
    /\ now' = now + 1
    /\ UNCHANGED <<tables, caches, call, result, pc, page>>

\* Lines 672-674: process_data(handpiece_df, treatments_df, treatments_id_df,
\* din, cutoff_date) behind st.cache_data; call.at records the clock of the
\* request and result.hit that the value came from the store.  The arguments whose names start
\* with an underscore are not part of the key.  A hit returns the stored
\* value; a miss runs the body and stores what it returns, and stores
\* nothing when it raises.
Analyze(din, cutoff_date) ==
    LET key == [treatments_id_df |-> treatments_id_df, din |-> din,
                cutoff_date |-> cutoff_date]
        run == process_data(handpiece_df, treatments_df, treatments_id_df,
                            din, cutoff_date, now, cache_handpiece_dates)
    IN  /\ call' = [fn |-> "process_data", din |-> din,
                    cutoff_date |-> cutoff_date, at |-> now]
        /\ pc' = "done"
        /\ IF key \in DOMAIN cache_process_data
           THEN /\ result' = [value |-> cache_process_data[key], hit |-> TRUE]
                /\ UNCHANGED caches
           ELSE /\ result' = [value |-> run.value, hit |-> FALSE]
                /\ cache_handpiece_dates' = run.dates_cache
                /\ cache_process_data' =
                       IF run.value.raised THEN cache_process_data
                       ELSE (key :> run.value) @@ cache_process_data
        /\ UNCHANGED <<tables, now>>

\* prepare_chart_data, lines 329-350: no figure for an empty summary.  The
\* two pie charts of lines 699-706 are both drawn from the summary by Tipo.
Charts(treatment_summary) ==
    IF treatment_summary = <<>> THEN {}
    ELSE {"chart Cantidad", "chart PVP"}

\* Lines 714-722: st.dataframe is called on each of the three summaries.
SummaryTables == {"table Tipo", "table Subtipo", "table Subprograma"}

SummaryPdfError == "Error generating PDF summary"

\* generate_pdf_summary, lines 352-489: the sections of the summary PDF.
\* A handpiece frame without columns raises KeyError at line 431 and no PDF
\* is built; the three summary tables are added together, under the one
\* test of line 439 on the summary by Tipo.
generate_pdf_summary(filtered_handpiece_df, treatment_summary) ==
    IF NoColumns(filtered_handpiece_df)
    THEN [sections |-> {}, errors |-> <<SummaryPdfError>>]
    ELSE [sections |-> {"pdf manipulos"} \cup
                       (IF treatment_summary = <<>> THEN {}
                        ELSE {"pdf Tipo", "pdf Subtipo", "pdf Subprograma"}),
          errors |-> <<>>]

\* generate_detailed_pdf, lines 491-566: the table of the joined treatments.
DetailedPdf == {"pdf detalle"}

\* Lines 676-757: what main renders from the value process_data returned.
\* An exception of process_data leaves main, which has no try around the
\* call; an empty treatment table gives the warning of line 757 and no
\* summary is computed; otherwise the three summaries are computed and
\* shown, each with the message it displayed if it failed, the charts are
\* drawn and the two PDFs are built.
Pages(value) ==
    IF value.raised
    THEN {[NoPage EXCEPT !.view = "exception"]}
    ELSE IF value.tr.rows = <<>>
    THEN {[NoPage EXCEPT !.view = "warning", !.errors = value.errors]}
    ELSE {[view |-> "report",
           treatment_summary |-> t.df,
           program_summary |-> p.df,
           subprogram_summary |-> s.df,
           rendered |-> Charts(t.df) \cup SummaryTables
                        \cup generate_pdf_summary(value.hp, t.df).sections
                        \cup DetailedPdf,
           errors |-> value.errors \o t.errors \o p.errors \o s.errors
                      \o generate_pdf_summary(value.hp, t.df).errors] :
             t \in create_treatment_summary(value.tr),
             p \in create_program_summary(value.tr),
             s \in create_subprogram_summary(value.tr)}

\* One press of "Analizar": lines 663-757.
Report(din, cutoff_date) ==
    /\ Analyze(din, cutoff_date)
    /\ page' \in Pages(result'.value)

\* The first request of a session.
AnalyzeOnce ==
    /\ pc = "ready"
    /\ \E din \in DINs, cutoff_date \in Cutoffs : Report(din, cutoff_date)

Next == AnalyzeOnce \/ Tick

Spec == Init /\ [][Next]_vars

(***************************************************************************)
(* A session of several requests over one short handpiece table.           *)
(***************************************************************************)
MaxRequests == 2    \* requests served in a session

InitSession ==
    /\ handpiece_df \in
           {[tz |-> "UTC", rows |-> <<r>>] :
               r \in {h \in TimedHandpieceRows : h.created_at.t = "ok"}}
    /\ treatments_df = DefaultTreatments
    /\ treatments_id_df = DefaultLookup
    /\ now \in NowStarts
    /\ BeforeFirstCall

AnalyzeAgain ==
    /\ Cardinality(DOMAIN cache_process_data) < MaxRequests
    /\ \E din \in DINs, cutoff_date \in Cutoffs : Report(din, cutoff_date)

NextSession == AnalyzeAgain \/ Tick

SpecSession == InitSession /\ [][NextSession]_vars

(***************************************************************************)
(* A session of several requests over tables in which the rows of device   *)
(* D1 may be faulty and those of device D2 are well formed.                *)
(***************************************************************************)
\* The row of D1: sound, without pulse_count, with a text for pulse_count,
\* or with a timestamp that does not parse.
FirstDeviceHandpieces ==
    {HandpieceRow("D1", p, IntCell(0), t) :
        p \in CounterCellsDrawn(300), t \in {OkTime(1), BadTime}}

FirstDeviceTreatments ==
    {TreatmentRow("D1", "T1", t) : t \in {OkTime(1), BadTime}}

InitRetry ==
    /\ handpiece_df \in
           {[tz |-> "UTC",
             rows |-> <<h, HandpieceRow("D2", IntCell(300), IntCell(0),
                                        OkTime(1))>>] :
               h \in FirstDeviceHandpieces}
    /\ treatments_df \in
           {[tz |-> "UTC", rows |-> <<t, TreatmentRow("D2", "T1", OkTime(1))>>] :
               t \in FirstDeviceTreatments}
    /\ treatments_id_df = DefaultLookup
    /\ now = 0
    /\ BeforeFirstCall

\* "Analizar" pressed again, for any device and cutoff.
Retry ==
    /\ Cardinality(DOMAIN cache_process_data) < MaxRequests
    /\ \E din \in DINs, cutoff_date \in Cutoffs : Report(din, cutoff_date)

SpecRetry == InitRetry /\ [][Retry]_vars

(***************************************************************************)
(* A run of main from the start: lines 612-757.  The files are read, and   *)
(* "Analizar" can be pressed once the four tables are there.               *)
(***************************************************************************)
FileStates == {"ok", "unreadable"}

DefaultHints ==
    [has_din |-> TRUE,
     rows |-> <<[din |-> "D1", fecha_corte |-> IntCell(MinDateSerial)]>>]

\* The files on disk: each readable or not, the hints file possibly without
\* its 'fecha_corte' column, the handpiece file with any one row.
Files ==
    [handpieces    : [state : FileStates,
                      table : {[tz |-> "UTC", rows |-> <<r>>] :
                                  r \in TimedHandpieceRows}],
     datos_drv_it  : [state : FileStates \cup {"no fecha_corte"},
                      table : {DefaultHints}],
     treatments    : [state : FileStates, table : {DefaultTreatments}],
     treatments_id : [state : FileStates, table : {DefaultLookup}]]

InitMain ==
    /\ NoTables
    /\ pc = "start"
    /\ call = [fn |-> "none"]
    /\ result = NothingLoaded

\* Line 613: handpiece_df, drv_df, treatments_df, treatments_id_df =
\* load_data(), with the message load_data displayed.
LoadData ==
    /\ pc = "start"
    /\ \E files \in Files :
           /\ call' = [fn |-> "load_data", files |-> files]
           /\ result' = load_data(files)
    /\ pc' = "loaded"
    /\ page' = [NoPage EXCEPT !.errors = result'.errors]
    /\ IF AllLoaded(result')
       THEN /\ handpiece_df' = result'.handpiece_df.value
            /\ treatments_df' = result'.treatments_df.value
            /\ treatments_id_df' = result'.treatments_id_df.value
       ELSE UNCHANGED tables
    /\ UNCHANGED <<now, caches>>

\* Lines 615-757: behind the test of line 615, "Analizar" is pressed.
AnalyzeLoaded ==
    /\ pc = "loaded"
    /\ AllLoaded(result)
    /\ \E din \in DINs, cutoff_date \in Cutoffs : Report(din, cutoff_date)

NextMain == LoadData \/ AnalyzeLoaded

SpecMain == InitMain /\ [][NextMain]_vars

(***************************************************************************)
(* The Usage Normalizer applied to the counters of one row.                *)
(***************************************************************************)
MaxPulse == 6       \* largest raw pulse count, and offset from 3 * 2^51, drawn

RawPulseCells ==
    {IntCell(p) : p \in 0..MaxPulse} \cup {HugeCell(k) : k \in 0..MaxPulse}

RawCounterRows ==
    [pulse_count      : RawPulseCells,
     burst_count      : {IntCell(0), IntCell(7)},
     activation_count : {IntCell(0), IntCell(8)},
     modulation_count : {IntCell(0), IntCell(9)}]

InitNormalize ==
    /\ NoTables
    /\ pc = "ready"
    /\ call \in [fn : {"normalize"}, row : RawCounterRows]
    /\ result = [pulso |-> IntCell(0), rafaga |-> IntCell(0),
                 activacion |-> IntCell(0), modulacion |-> IntCell(0)]

Normalize ==
    /\ pc = "ready"
    /\ call.fn = "normalize"
    /\ result' = NormalizeCounters(call.row)
    /\ pc' = "done"
    /\ UNCHANGED <<tables, now, caches, call, page>>

SpecNormalize == InitNormalize /\ [][Normalize]_vars

(***************************************************************************)
(* One request over a handpiece table of three main-function rows with     *)
(* the raw pulse counts 300, 600 and 900 and no other use.                 *)
(***************************************************************************)
ScenarioPulses == {300, 600, 900}

ScenarioRows ==
    {HandpieceRow(d, IntCell(p), IntCell(0), OkTime(w)) :
        d \in DINs, p \in ScenarioPulses, w \in {1, 2}}

InitScenario ==
    /\ handpiece_df \in [tz : {"UTC"}, rows : [1..3 -> ScenarioRows]]
    /\ treatments_df = DefaultTreatments
    /\ treatments_id_df = DefaultLookup
    /\ now = 0
    /\ BeforeFirstCall

SpecScenario == InitScenario /\ [][AnalyzeOnce]_vars

(***************************************************************************)
(* The Aggregator applied to one joined treatment table.                   *)
(***************************************************************************)
MaxSummaryRows == 3     \* longest joined table summarised

JoinedRow(code, id, tipo, subtipo, subprograma, pvp, secuencia) ==
    [din |-> "D1", code |-> code, reported_at |-> OkTime(1),
     Treatment_ID |-> id, Tipo |-> tipo, Subtipo |-> subtipo,
     Subprograma |-> subprograma, PVP |-> IntCell(pvp),
     Secuencia |-> IntCell(secuencia)]

\* Rows as the Treatment Joiner leaves them: first steps of two categories,
\* a second step, a row without lookup entry and a treatment priced 0.
JoinedRows ==
    {JoinedRow("T1", "T1", "Depilacion", "Laser", "Axilas", 25, 10),
     JoinedRow("T3", "T3", "Depilacion", "Laser", "Piernas", 25, 10),
     JoinedRow("T4", "T4", "FHOS", "Facial", "Activacion", 60, 10),
     JoinedRow("T2", "T2", "FHOS", "Facial", "Estimulacion", 60, 20),
     JoinedRow("T9", "NaN", DefaultTipo, "NaN", DefaultSubprograma,
               DefaultPVP, DefaultSecuencia10),
     JoinedRow("T5", "T5", "Cortesia", "Prueba", "Demo", 0, 10)}

\* The tables summarised: pd.DataFrame(), and tables of joined rows, the
\* table without rows among them.
JoinedFrames ==
    {EmptyFrame}
    \cup [tz : {"UTC"}, rows : SeqsUpTo(JoinedRows, MaxSummaryRows)]

SummaryFunctions == {"create_treatment_summary", "create_program_summary",
                     "create_subprogram_summary"}

InitSummary ==
    /\ NoTables
    /\ pc = "ready"
    /\ call \in [fn : SummaryFunctions, filtered_treatments_df : JoinedFrames]
    /\ result = [df |-> <<>>, errors |-> <<>>]

CreateSummary ==
    /\ pc = "ready"
    /\ call.fn \in SummaryFunctions
    /\ result' \in
          CASE call.fn = "create_treatment_summary" ->
                   create_treatment_summary(call.filtered_treatments_df)
            [] call.fn = "create_program_summary" ->
                   create_program_summary(call.filtered_treatments_df)
            [] call.fn = "create_subprogram_summary" ->
                   create_subprogram_summary(call.filtered_treatments_df)
    /\ pc' = "done"
    /\ UNCHANGED <<tables, now, caches, call, page>>

SpecSummary == InitSummary /\ [][CreateSummary]_vars

(***************************************************************************)
(* The suggested cutoff of one device over one table of hints.             *)
(***************************************************************************)
MaxHints == 2       \* longest table of cutoff hints drawn

\* Serials around 2023-01-01, and 2022-06-01.
HintSerials == {MinDateSerial - 214, MinDateSerial - 1, MinDateSerial,
                MinDateSerial + 1}

HintCells ==
    {IntCell(n) : n \in HintSerials}
    \cup {DigitsCell(n) : n \in {MinDateSerial - 1, MinDateSerial + 1}}
    \cup {FloatCell(MinDateSerial * TicksPerDay + d) : d \in {-1, 1}}
    \cup {NaNCell, StrCell}

HintRows == [din : DINs, fecha_corte : HintCells]

HintTables == [has_din : BOOLEAN, rows : SeqsUpTo(HintRows, MaxHints)]

InitCutoff ==
    /\ NoTables
    /\ pc = "ready"
    /\ call \in [fn : {"get_suggested_cutoff_date"}, drv_df : HintTables,
                  din : DINs]
    /\ result = min_date

\* load_data converts the column and main asks for the suggestion, lines 52
\* and 627.
SuggestCutoff ==
    /\ pc = "ready"
    /\ call.fn = "get_suggested_cutoff_date"
    /\ result' = get_suggested_cutoff_date(ConvertHints(call.drv_df), call.din)
    /\ pc' = "done"
    /\ UNCHANGED <<tables, now, caches, call, page>>

SpecCutoff == InitCutoff /\ [][SuggestCutoff]_vars

(***************************************************************************)
(* Properties of the Identity Classifier.                                  *)
(***************************************************************************)
ClassifyDone == pc = "done" /\ call.fn = "classify"

\* C1: the class is M.F. exactly when the coerced identifier ends in "1" and
\* one digit, F.F. exactly when it ends in "2" and one digit, and
\* UNIDENTIFIED in every other case.
C1_ClassBySuffix ==
    ClassifyDone =>
        LET s == PyStr(call.x)
        IN  /\ result.val = "M.F." <=> EndsWithDigitAfter("1", s)
            /\ result.val = "F.F." <=> EndsWithDigitAfter("2", s)
            /\ result.val = UNIDENTIFIED <=>
                   ~(EndsWithDigitAfter("1", s) \/ EndsWithDigitAfter("2", s))

(***************************************************************************)
(* Properties of the Service-Life Estimator.                               *)
(***************************************************************************)
VidaDone == pc = "done" /\ call.fn = "calculate_vida_util"

AllIntCells(row) == \A c \in CounterCells(row) : c.t = "int" /\ c.v >= 0

\* The class of the identifier of the call, as the Identity Classifier names it.
VidaClass == ClassifyHandpieceId(call.handpiece_id)

\* Capacity and consumption as the reference formula states them, doubled.
RefCapacity2 == IF VidaClass = "M.F." THEN 2 * 4000000 ELSE 2 * 2000000

RefConsumed2 ==
    LET r == call.row
    IN  IF VidaClass = "M.F."
        THEN 2 * (r.pulso.v * 20 + r.rafaga.v + r.activacion.v + r.modulacion.v)
        ELSE 2 * (r.pulso.v * 10 + r.rafaga.v) + (r.activacion.v + r.modulacion.v)

RefRemaining2 == RefCapacity2 - RefConsumed2

PctTable == [n \in 0..1000 |-> FormatPct(n)]

PctTexts == {PctTable[n] : n \in 0..1000}

\* The number of tenths a reported text stands for ("0%" is 0).
PctInverse == [s \in PctTexts |-> CHOOSE n \in 0..1000 : PctTable[n] = s]

NumOf(text) == IF text = "0%" THEN 0 ELSE PctInverse[text]

Abs(x) == IF x < 0 THEN 0 - x ELSE x

\* n tenths is remaining / capacity * 100 rounded to one decimal place:
\* |remaining * 1000 / capacity - n| <= 1/2.
IsRounded(n, remaining2, capacity2) ==
    Abs(remaining2 - n * 2 * (capacity2 \div 2000)) <= capacity2 \div 2000

Identified == VidaClass \in {"M.F.", "F.F."}

\* C2, as claimed: for every identified row with non-negative integer
\* counters the reported number is (capacity - consumed) / capacity * 100
\* rounded to one decimal place.
C2_ReportsFormula ==
    (VidaDone /\ Identified /\ AllIntCells(call.row)) =>
        /\ result.val \in PctTexts \cup {"0%"}
        /\ IsRounded(NumOf(result.val), RefRemaining2, RefCapacity2)

\* C2, amended: the reported number is that rounded formula whenever
\* consumed < capacity, and the text is "0%" whenever consumed >= capacity.
C2_ReportsFormulaBelowCapacity ==
    (VidaDone /\ Identified /\ AllIntCells(call.row)) =>
        IF RefRemaining2 > 0
        THEN /\ result.val \in PctTexts
             /\ IsRounded(PctInverse[result.val], RefRemaining2, RefCapacity2)
        ELSE result.val = "0%"

\* Witness of C2: the M.F. row with pulso = 100 and nothing else, whose
\* 99.95 is reported as "100.0%".
C2_Witness ==
    /\ VidaDone
    /\ VidaClass = "M.F."
    /\ call.row = [pulso |-> IntCell(100), rafaga |-> IntCell(0),
                   activacion |-> IntCell(0), modulacion |-> IntCell(0)]
    /\ result.val = "100.0%"

\* C3: for an identified row with non-negative counters the output is "0%"
\* exactly when remaining <= 0, and otherwise a one-decimal percentage
\* between 0.0% and 100.0%.
C3_ClampedToRange ==
    (VidaDone /\ Identified /\ AllIntCells(call.row)) =>
        /\ result.val = "0%" <=> RefRemaining2 <= 0
        /\ RefRemaining2 > 0 => result.val \in PctTexts

\* Witness of C3: a row used beyond its capacity, reported as "0%".
C3_Witness ==
    /\ VidaDone /\ Identified /\ AllIntCells(call.row)
    /\ RefRemaining2 < 0
    /\ result.val = "0%"

\* The rows of the domain that differ from row in one counter only, which
\* is larger.
LargerRows(row) ==
    {[row EXCEPT !.pulso = IntCell(v)] : v \in {w \in PulsoValues : w > row.pulso.v}}
    \cup {[row EXCEPT !.rafaga = IntCell(v)] :
             v \in {w \in RafagaValues : w > row.rafaga.v}}
    \cup {[row EXCEPT !.activacion = IntCell(v)] :
             v \in {w \in ActivacionValues : w > row.activacion.v}}
    \cup {[row EXCEPT !.modulacion = IntCell(v)] :
             v \in {w \in ModulacionValues : w > row.modulacion.v}}

\* C4: raising one usage counter of a row never raises the reported
\* remaining life ("0%" counting as 0).
C4_Monotone ==
    (VidaDone /\ Identified /\ AllIntCells(call.row)) =>
        \A larger \in LargerRows(call.row) :
            NumOf(calculate_vida_util(larger, call.handpiece_id))
                <= NumOf(result.val)

\* Witness of C4: a row reported above 0 that has a larger row reported
\* strictly lower.
C4_Witness ==
    /\ VidaDone /\ Identified /\ AllIntCells(call.row)
    /\ \E larger \in LargerRows(call.row) :
           /\ NumOf(calculate_vida_util(larger, call.handpiece_id))
                  < NumOf(result.val)
           /\ NumOf(calculate_vida_util(larger, call.handpiece_id)) > 0

(***************************************************************************)
(* Properties of process_data.                                             *)
(***************************************************************************)
ProcessDone == pc = "done" /\ call.fn = "process_data"

Returned == ProcessDone /\ ~result.value.raised

\* The instant of a reading: a naive reading is UTC, a reading in the zone
\* east of UTC is one tick ahead of its instant.
RefInstant(wall, tz) == IF tz = "east" THEN wall - 1 ELSE wall

CutoffInstant == RefInstant(call.cutoff_date.wall, call.cutoff_date.tz)

\* The positions of the input rows of the requested device.
HandpiecesOfCall == {i \in DOMAIN handpiece_df.rows :
                        handpiece_df.rows[i].din = call.din}

TreatmentsOfCall == {i \in DOMAIN treatments_df.rows :
                        treatments_df.rows[i].din = call.din}

FaultyCell(c) == c.t # "int"

\* The input rows of the device that carry a timestamp at or after the cutoff.
HandpiecesDue ==
    {i \in HandpiecesOfCall :
        /\ handpiece_df.rows[i].created_at.t = "ok"
        /\ RefInstant(handpiece_df.rows[i].created_at.wall, handpiece_df.tz)
               >= CutoffInstant}

TreatmentsDue ==
    {i \in TreatmentsOfCall :
        /\ treatments_df.rows[i].reported_at.t = "ok"
        /\ RefInstant(treatments_df.rows[i].reported_at.wall, treatments_df.tz)
               >= CutoffInstant}

HandpiecesParse ==
    \A i \in HandpiecesOfCall : handpiece_df.rows[i].created_at.t = "ok"

TreatmentsParse ==
    \A i \in TreatmentsOfCall : treatments_df.rows[i].reported_at.t = "ok"

\* C5: over a table whose timestamps parse, a missing or non-numeric counter
\* of one row yields 'Error' for that row only, the other rows keep their
\* percentages and process_data returns the whole batch without raising.
C5_PerRowIsolation ==
    (ProcessDone /\ HandpiecesParse) =>
        /\ ~result.value.raised
        /\ Len(result.value.hp.rows) = Cardinality(HandpiecesDue)
        /\ \A j \in DOMAIN result.value.hp.rows :
               LET r == result.value.hp.rows[j]
               IN  IF \E c \in CounterCells(r) : FaultyCell(c)
                   THEN r.vida_util = "Error"
                   ELSE r.vida_util \in PctTexts \cup {"0%"}

\* How many positions of a sequence hold x.
Count(seq, x) == Cardinality({i \in DOMAIN seq : seq[i] = x})

\* What identifies a handpiece row in the input and in the output.
HandpieceIn(i) ==
    <<handpiece_df.rows[i].created_at.wall, handpiece_df.rows[i].burst_count>>

HandpieceOut(r) == <<r.fecha_uso.wall, r.rafaga>>

TreatmentIn(i) ==
    <<treatments_df.rows[i].reported_at.wall, treatments_df.rows[i].code>>

TreatmentOut(r) == <<r.reported_at.wall, r.code>>

\* The handpiece output holds the due rows, each as often as the input does,
\* and nothing else.
HandpieceMembership ==
    LET out == [j \in DOMAIN result.value.hp.rows |->
                   HandpieceOut(result.value.hp.rows[j])]
    IN  /\ \A j \in DOMAIN result.value.hp.rows :
               result.value.hp.rows[j].din = call.din
        /\ Len(out) = Cardinality(HandpiecesDue)
        /\ \A i \in HandpiecesDue :
               Count(out, HandpieceIn(i))
                   = Cardinality({k \in HandpiecesDue :
                                     HandpieceIn(k) = HandpieceIn(i)})

\* The treatment output holds one row or more for every due row, and only
\* rows of due rows of the device.
TreatmentMembership ==
    LET out == [j \in DOMAIN result.value.tr.rows |->
                   TreatmentOut(result.value.tr.rows[j])]
    IN  /\ \A j \in DOMAIN result.value.tr.rows :
               /\ result.value.tr.rows[j].din = call.din
               /\ \E i \in TreatmentsDue : TreatmentIn(i) = out[j]
        /\ \A i \in TreatmentsDue : Count(out, TreatmentIn(i)) >= 1

\* C6, as claimed: for a device and a cutoff the handpiece output, and
\* likewise the treatment output, holds exactly the rows of the device whose
\* timestamp is at or after the cutoff.
C6_FilterMembership ==
    Returned => HandpieceMembership /\ TreatmentMembership

\* C6, amended: that holds of a table when every timestamp of the device's
\* rows in it parses; when one does not, the output of that table is empty.
C6_FilterMembershipWhenParsed ==
    Returned =>
        /\ IF HandpiecesParse THEN HandpieceMembership
           ELSE result.value.hp.rows = <<>>
        /\ IF TreatmentsParse THEN TreatmentMembership
           ELSE result.value.tr.rows = <<>>

\* Witness of C6: a handpiece row exactly at the cutoff is kept while a row
\* of the device before the cutoff is left out.
C6_Witness ==
    /\ Returned
    /\ \E j \in DOMAIN result.value.hp.rows :
           RefInstant(result.value.hp.rows[j].fecha_uso.wall,
                      result.value.hp.tz) = CutoffInstant
    /\ \E i \in HandpiecesOfCall :
           /\ handpiece_df.rows[i].created_at.t = "ok"
           /\ RefInstant(handpiece_df.rows[i].created_at.wall, handpiece_df.tz)
                  < CutoffInstant
    /\ handpiece_df.tz = "naive"
    /\ call.cutoff_date.tz = "naive"

\* C7: every handpiece row of a computed output is ACTIVO exactly when the
\* clock of the call minus its timestamp is strictly less than 30 days.
C7_EstadoByAge ==
    (Returned /\ ~result.hit) =>
        \A j \in DOMAIN result.value.hp.rows :
            LET r == result.value.hp.rows[j]
                age == call.at - RefInstant(r.fecha_uso.wall, result.value.hp.tz)
            IN  /\ r.estado \in {"ACTIVO", "INACTIVO"}
                /\ r.estado = "ACTIVO" <=> age < 30 * TicksPerDay

\* Witness of C7: a row exactly 30 days old is INACTIVO.
C7_Witness ==
    /\ Returned /\ ~result.hit
    /\ \E j \in DOMAIN result.value.hp.rows :
           LET r == result.value.hp.rows[j]
           IN  /\ call.at - RefInstant(r.fecha_uso.wall, result.value.hp.tz)
                      = 30 * TicksPerDay
               /\ r.estado = "INACTIVO"

\* C8: what a request returns, from the store or not, is what process_data
\* computes from the same tables at the clock of the request.
C8_CacheTransparent ==
    ProcessDone =>
        result.value = process_data(handpiece_df, treatments_df,
                                    treatments_id_df, call.din,
                                    call.cutoff_date, call.at, <<>>).value

\* The lookup rows of a code.
LookupOf(code) == {k \in DOMAIN treatments_id_df :
                      treatments_id_df[k].Treatment_ID = code}

\* C9, as claimed: every treatment row of the device at or after the cutoff
\* is in the joined output, matched or not.
C9_LeftJoinKeepsAll ==
    Returned =>
        \A i \in TreatmentsDue :
            \E j \in DOMAIN result.value.tr.rows :
                TreatmentOut(result.value.tr.rows[j]) = TreatmentIn(i)

\* C9, amended: it is so when every report timestamp of the device's rows
\* parses.
C9_LeftJoinKeepsAllWhenParsed ==
    (Returned /\ TreatmentsParse) =>
        \A i \in TreatmentsDue :
            \E j \in DOMAIN result.value.tr.rows :
                TreatmentOut(result.value.tr.rows[j]) = TreatmentIn(i)

\* Witness of C9: a due row whose code has no lookup entry is in the output.
C9_Witness ==
    /\ Returned /\ TreatmentsParse
    /\ \E i \in TreatmentsDue :
           /\ LookupOf(treatments_df.rows[i].code) = {}
           /\ \E j \in DOMAIN result.value.tr.rows :
                  TreatmentOut(result.value.tr.rows[j]) = TreatmentIn(i)
    /\ treatments_id_df # <<>>

\* C10: an output row without lookup match carries 'FHOS', 'FHOS genérico',
\* 60 and 1.0, and an output row with a match carries every value present in
\* a lookup entry of its code.
C10_DefaultFill ==
    Returned =>
        \A j \in DOMAIN result.value.tr.rows :
            LET r == result.value.tr.rows[j]
            IN  IF LookupOf(r.code) = {}
                THEN /\ r.Tipo = "FHOS"
                     /\ r.Subprograma = "FHOS genérico"
                     /\ r.PVP = IntCell(60)
                     /\ r.Secuencia = IntCell(10)
                ELSE \E k \in LookupOf(r.code) :
                         LET l == treatments_id_df[k]
                         IN  /\ l.Tipo # "NaN" => r.Tipo = l.Tipo
                             /\ l.Subprograma # "NaN"
                                    => r.Subprograma = l.Subprograma
                             /\ l.PVP.t # "nan" => r.PVP = l.PVP
                             /\ l.Secuencia.t # "nan"
                                    => r.Secuencia = l.Secuencia

\* Witness of C10: the output holds a defaulted unmatched row and a matched
\* row whose price is not the default.
C10_Witness ==
    /\ Returned
    /\ \E j \in DOMAIN result.value.tr.rows :
           /\ LookupOf(result.value.tr.rows[j].code) = {}
           /\ result.value.tr.rows[j].PVP = IntCell(60)
    /\ \E j \in DOMAIN result.value.tr.rows :
           /\ LookupOf(result.value.tr.rows[j].code) # {}
           /\ result.value.tr.rows[j].PVP = IntCell(25)

(***************************************************************************)
(* Properties of the joined table and of its three summaries.              *)
(***************************************************************************)
Reported == ProcessDone /\ page.view = "report"

\* The sum of the counts of a summary.
TotalCantidad(summary) ==
    LET sum[i \in 0..Len(summary)] ==
            IF i = 0 THEN 0 ELSE sum[i - 1] + summary[i].Cantidad
    IN  sum[Len(summary)]

\* The first-step rows of the table the summaries were computed from.
FirstStepShown ==
    {j \in DOMAIN result.value.tr.rows :
        result.value.tr.rows[j].Secuencia = IntCell(10)}

\* C11: no row of the joined table lacks its category, subcategory, program
\* label, price or sequence step, and the category, program and subcategory
\* summaries all count every first-step row of the table.
C11_AllFieldsDefaulted ==
    Reported =>
        /\ \A j \in DOMAIN result.value.tr.rows :
               LET r == result.value.tr.rows[j]
               IN  /\ r.Tipo # "NaN" /\ r.Subprograma # "NaN"
                   /\ r.Subtipo # "NaN"
                   /\ r.PVP.t # "nan" /\ r.Secuencia.t # "nan"
        /\ TotalCantidad(page.treatment_summary) = Cardinality(FirstStepShown)
        /\ TotalCantidad(page.subprogram_summary) = Cardinality(FirstStepShown)
        /\ TotalCantidad(page.program_summary) = Cardinality(FirstStepShown)

(***************************************************************************)
(* Properties of the Aggregator.                                           *)
(***************************************************************************)
SummaryDone == pc = "done" /\ call.fn \in SummaryFunctions

\* The column a summary function groups by.
DimensionOf(fn) ==
    CASE fn = "create_treatment_summary" -> "Tipo"
      [] fn = "create_program_summary" -> "Subtipo"
      [] fn = "create_subprogram_summary" -> "Subprograma"

\* The positions of the first-step rows of the table summarised.
FirstStepOfCall ==
    {i \in DOMAIN call.filtered_treatments_df.rows :
        call.filtered_treatments_df.rows[i].Secuencia = IntCell(10)}

\* Those of them that carry the value x in the column grouped by.
FirstStepWith(x) ==
    {i \in FirstStepOfCall :
        call.filtered_treatments_df.rows[i][DimensionOf(call.fn)] = x}

\* The sum of the prices of the rows at the positions of I.
RECURSIVE PriceOf(_)
PriceOf(I) ==
    IF I = {} THEN 0
    ELSE LET i == CHOOSE j \in I : TRUE
         IN  call.filtered_treatments_df.rows[i].PVP.v + PriceOf(I \ {i})

\* One summary row per value carried by a first-step row, with the count
\* and the summed price of the first-step rows of that value.
GroupedByValue ==
    /\ \A i \in FirstStepOfCall :
           LET x == call.filtered_treatments_df.rows[i][DimensionOf(call.fn)]
           IN  x # "NaN" =>
                   Cardinality({k \in DOMAIN result.df :
                                   result.df[k].key = x}) = 1
    /\ \A k \in DOMAIN result.df :
           /\ FirstStepWith(result.df[k].key) # {}
           /\ result.df[k].Cantidad = Cardinality(FirstStepWith(result.df[k].key))
           /\ result.df[k].PVP = PriceOf(FirstStepWith(result.df[k].key))

\* C12: a summary has exactly one row per value occurring among the
\* first-step rows, counting them and summing their prices, rows of other
\* steps belong to no group, and the counts add up to the number of
\* first-step rows.
C12_Grouping ==
    SummaryDone =>
        /\ GroupedByValue
        /\ TotalCantidad(result.df) = Cardinality(FirstStepOfCall)

\* The sum of a percentage column, in hundredths.
TotalPct(summary, column) ==
    LET sum[i \in 0..Len(summary)] ==
            IF i = 0 THEN 0 ELSE sum[i - 1] + summary[i][column].v
    IN  sum[Len(summary)]

\* The percentages of a column are numbers that add up to 100 within 0.1.
AboutHundred(summary, column) ==
    /\ \A k \in DOMAIN summary : summary[k][column].t = "int"
    /\ Abs(TotalPct(summary, column) - 10000) <= 10

\* C13: in a summary that has rows, the percentages of count add up to 100
\* within 0.1, and so do the percentages of revenue.
C13_PercentagesAddUp ==
    (SummaryDone /\ result.df # <<>>) =>
        /\ AboutHundred(result.df, "PctTratamientos")
        /\ AboutHundred(result.df, "PctIngresos")

\* The table summarised has no first-step row.
NoFirstStep == SummaryDone /\ FirstStepOfCall = {}

FirstEncounter(x) ==
    CHOOSE i \in FirstStepWith(x) : \A j \in FirstStepWith(x) : i <= j

CountDescending ==
    \A k \in DOMAIN result.df :
        k < Len(result.df) => result.df[k].Cantidad >= result.df[k + 1].Cantidad

\* C15: the rows of a summary are sorted by count descending, and groups of
\* equal count appear in the order in which their value was first
\* encountered in the input.
C15_CountDescendingStable ==
    SummaryDone =>
        /\ CountDescending
        /\ \A k, l \in DOMAIN result.df :
               (k < l /\ result.df[k].Cantidad = result.df[l].Cantidad) =>
                   FirstEncounter(result.df[k].key)
                       < FirstEncounter(result.df[l].key)

\* C15, amended: the rows of a summary are sorted by count descending (the
\* order of groups of equal count is not that of first encounter).
C15_CountDescending == SummaryDone => CountDescending

\* Witness of C15: a group encountered later in the input, with the larger
\* count, precedes a group encountered earlier.
C15_Witness ==
    /\ SummaryDone
    /\ \E k \in DOMAIN result.df :
           /\ k < Len(result.df)
           /\ result.df[k].Cantidad > result.df[k + 1].Cantidad
           /\ FirstEncounter(result.df[k].key)
                  > FirstEncounter(result.df[k + 1].key)

(***************************************************************************)
(* Properties of the suggested cutoff.                                     *)
(***************************************************************************)
CutoffDone == pc = "done" /\ call.fn = "get_suggested_cutoff_date"

\* The positions of the hint rows of the device asked for.
HintsOfCall ==
    IF call.drv_df.has_din
    THEN {i \in DOMAIN call.drv_df.rows : call.drv_df.rows[i].din = call.din}
    ELSE {}

\* The instant a hint cell stands for, in ticks from 1899-12-30, when it is
\* a serial.
IsSerial(c) == c.t \in {"int", "digits", "float"}
SerialTicks(c) == IF c.t = "float" THEN c.v ELSE c.v * TicksPerDay

FloorTicks == MinDateSerial * TicksPerDay

\* C16: the suggestion is in UTC and not before 2023-01-01; it is exactly
\* 2023-01-01 for a device without hint row, for a hint that is no serial
\* and for a hint before 2023-01-01, and it is the hint itself otherwise.
C16_SuggestedFloor ==
    CutoffDone =>
        /\ result.tz = "UTC"
        /\ result.wall >= FloorTicks
        /\ IF HintsOfCall = {} THEN result.wall = FloorTicks
           ELSE LET first == CHOOSE i \in HintsOfCall :
                                \A j \in HintsOfCall : i <= j
                    c == call.drv_df.rows[first].fecha_corte
                IN  IF ~IsSerial(c) \/ SerialTicks(c) < FloorTicks
                    THEN result.wall = FloorTicks
                    ELSE result.wall = SerialTicks(c)

\* Witness of C16: the hint 2022-06-01 of the device was raised to
\* 2023-01-01.
C16_Witness ==
    /\ CutoffDone
    /\ HintsOfCall # {}
    /\ \A i \in HintsOfCall :
           call.drv_df.rows[i].fecha_corte = IntCell(MinDateSerial - 214)
    /\ result = min_date

(***************************************************************************)
(* Properties of the faults of the stages.                                 *)
(***************************************************************************)
\* m is among the messages displayed by the stages of the call.
Displayed(m) == \E k \in DOMAIN result.value.errors : result.value.errors[k] = m

\* C17: a timestamp that does not parse among the handpiece rows of the
\* device makes the handpiece stage return the empty table with its error
\* message, and one among the treatment rows of the device does so for the
\* treatment stage; no row of the batch is returned.
C17_BatchAbort ==
    Returned =>
        /\ ~HandpiecesParse =>
               /\ result.value.hp = EmptyFrame
               /\ Displayed(HandpieceDatesError)
        /\ ~TreatmentsParse =>
               /\ result.value.tr = EmptyFrame
               /\ Displayed(TreatmentsError)

\* Witness of C17: of two handpiece rows of the device one carries a due
\* timestamp and one a timestamp that does not parse, and the table returned
\* is empty.
C17_Witness ==
    /\ Returned
    /\ ~HandpiecesParse
    /\ HandpiecesDue # {}
    /\ result.value.hp = EmptyFrame
    /\ Displayed(HandpieceDatesError)

\* The rows of the requested device are well formed: the pulse counters are
\* integers and the timestamps parse.
WellFormedOfCall ==
    /\ HandpiecesParse /\ TreatmentsParse
    /\ \A i \in HandpiecesOfCall : handpiece_df.rows[i].pulse_count.t = "int"

\* What the call returns in a session that had no request before it.
FirstAnswer ==
    process_data(handpiece_df, treatments_df, treatments_id_df, call.din,
                 call.cutoff_date, call.at, <<>>).value

\* C18: no exception leaves process_data; a fault of a stage is answered with
\* a displayed message; and a request computed anew over well-formed rows of
\* its device returns, without message, what it returns in a session
\* without earlier failure.
C18_FaultsContained ==
    ProcessDone =>
        /\ ~result.value.raised
        /\ ~WellFormedOfCall => result.value.errors # <<>>
        /\ (WellFormedOfCall /\ ~result.hit) =>
               /\ result.value = FirstAnswer
               /\ result.value.errors = <<>>

(***************************************************************************)
(* Properties of the start of main.                                        *)
(***************************************************************************)
LoadDone == pc = "loaded" /\ call.fn = "load_data"

NoneLoaded(loaded) ==
    /\ ~loaded.handpiece_df.present
    /\ ~loaded.drv_df.present
    /\ ~loaded.treatments_df.present
    /\ ~loaded.treatments_id_df.present

\* The four tables when every file is read and converted, and otherwise
\* four absent values with the error message displayed.
LoadIsAllOrNothing ==
    LoadDone =>
        IF LoadFault(call.files)
        THEN NoneLoaded(result) /\ page.errors = <<LoadError>>
        ELSE AllLoaded(result) /\ page.errors = <<>>

\* C19: load_data returns all four tables or, on a failure with any file,
\* four absent values and a displayed error; and process_data is called and
\* the summaries are made only in a run in which the four tables were loaded.
C19_AllOrNothingLoad ==
    /\ []LoadIsAllOrNothing
    /\ [][(call'.fn = "process_data" \/ page'.view = "report")
            => (LoadDone /\ AllLoaded(result))]_vars

\* Witness of C19: the treatments file could not be read, the other three
\* could, and nothing was loaded.
C19_Witness ==
    /\ LoadDone
    /\ call.files.treatments.state # "ok"
    /\ call.files.handpieces.state = "ok"
    /\ call.files.datos_drv_it.state = "ok"
    /\ call.files.treatments_id.state = "ok"
    /\ NoneLoaded(result)
    /\ page.errors = <<LoadError>>

(***************************************************************************)
(* Properties of the Usage Normalizer.                                     *)
(***************************************************************************)
NormalizeDone == pc = "done" /\ call.fn = "normalize"

\* The pulse counter is p/3 rounded to the nearest integer, halves to the
\* even neighbour, and the other three counters are carried over.
\* (3 * 2^51 + k) / 3 is 2^51 + k/3, so the same rounding holds of offsets.
RescaledAndCarried ==
    /\ result.pulso.t = call.row.pulse_count.t
    /\ result.pulso.v = RoundHalfEven(call.row.pulse_count.v, 3)
    /\ result.rafaga = call.row.burst_count
    /\ result.activacion = call.row.activation_count
    /\ result.modulacion = call.row.modulation_count

\* C20: for every non-negative integer pulse_count the normalized pulse
\* counter is p/3 rounded to the nearest integer, ties to even, and the
\* burst, activation and modulation counters are carried over unchanged.
C20_Rescaled == NormalizeDone => RescaledAndCarried

\* C20, amended: it is so for every pulse_count below 3 * 2^51.
C20_RescaledBelowDoubleLimit ==
    (NormalizeDone /\ call.row.pulse_count.t = "int") => RescaledAndCarried

\* Witness of C20: a count that leaves the remainder 2 was rounded up, next
\* to counters that are not zero.
C20_Witness ==
    /\ NormalizeDone
    /\ call.row.pulse_count = IntCell(5)
    /\ result.pulso = IntCell(2)
    /\ result.rafaga = IntCell(7)
    /\ result.activacion = IntCell(8)
    /\ result.modulacion = IntCell(9)

\* process_data on a table of one row of the first device, whose raw
\* identifier is any of RawIds and whose burst counter is a number, missing
\* or a text.
IdentifierRows ==
    {[HandpieceRow("D1", IntCell(300), b, OkTime(1)) EXCEPT !.handpiece_id = x] :
        x \in RawIds, b \in CounterCellsDrawn(4000)}

InitIdentity ==
    /\ handpiece_df \in [tz : {"UTC"}, rows : [1..1 -> IdentifierRows]]
    /\ treatments_df = DefaultTreatments
    /\ treatments_id_df = DefaultLookup
    /\ now = 0
    /\ BeforeFirstCall

SpecIdentity == InitIdentity /\ [][AnalyzeOnce]_vars

\* The report of a device whose treatments are first steps (T1) or second
\* steps (T2) of a treatment, with a handpiece table that varies in its
\* timestamps.
SteppedLookup ==
    <<LookupRow("T1", "Depilacion", "Laser", "Axilas", IntCell(25), IntCell(10)),
      LookupRow("T2", "FHOS", "Facial", "Estimulacion", IntCell(60), IntCell(20))>>

SteppedTreatmentRows == {TreatmentRow("D1", c, OkTime(1)) : c \in {"T1", "T2"}}

FirstDeviceTimedRows ==
    {HandpieceRow("D1", IntCell(300), IntCell(0), t) : t \in Times}

InitRender ==
    /\ handpiece_df \in [tz : {"UTC"},
                         rows : SeqsUpTo(FirstDeviceTimedRows, MaxRows)]
    /\ treatments_df \in [tz : {"UTC"},
                          rows : SeqsUpTo(SteppedTreatmentRows, MaxRows)]
    /\ treatments_id_df = SteppedLookup
    /\ now = 0
    /\ BeforeFirstCall

SpecRender == InitRender /\ [][AnalyzeOnce]_vars

\* The two variants of process_data run on the same tables, for the same
\* device and cutoff, at the same clock.
FirstDeviceTreatmentRows == {TreatmentRow("D1", "T1", t) : t \in Times}

InitVariants ==
    /\ handpiece_df \in [tz : {"naive", "east"},
                         rows : SeqsUpTo(FirstDeviceTimedRows, MaxRows)]
    /\ treatments_df \in [tz : {"UTC"},
                          rows : SeqsUpTo(FirstDeviceTreatmentRows, 1)]
    /\ treatments_id_df = DefaultLookup
    /\ now = 0
    /\ EmptyCaches
    /\ pc = "ready"
    /\ call = [fn |-> "none"]
    /\ result = [value |-> Raised, hit |-> FALSE, legacy |-> Raised]
    /\ page = NoPage

RunVariants ==
    /\ pc = "ready"
    /\ \E din \in DINs, cutoff_date \in Cutoffs :
           /\ call' = [fn |-> "process_data", din |-> din,
                       cutoff_date |-> cutoff_date, at |-> now]
           /\ result' = [value  |-> process_data(handpiece_df, treatments_df,
                                       treatments_id_df, din, cutoff_date,
                                       now, <<>>).value,
                         hit    |-> FALSE,
                         legacy |-> legacy_process_data(handpiece_df,
                                       treatments_df, treatments_id_df, din,
                                       cutoff_date, now)]
    /\ pc' = "done"
    /\ UNCHANGED <<tables, now, caches, page>>

SpecVariants == InitVariants /\ [][RunVariants]_vars

\* process_handpiece_dates applied to a device's normalized rows and then to
\* the table it returned, with the same cutoff; the clock may advance
\* between the two calls.
FilterRows ==
    {NormalizeUsage(HandpieceRow("D1", IntCell(p), IntCell(0), t)) :
        p \in {300, 600}, t \in Times}

FilterFrames ==
    {[tz |-> z, rows |-> rows] :
        z \in TableZones,
        rows \in UNION {[1..n -> FilterRows] : n \in 0..MaxRows}}

NothingFiltered == [df |-> EmptyFrame, errors |-> <<>>]

InitFilter ==
    /\ handpiece_df = <<>>
    /\ treatments_df = <<>>
    /\ treatments_id_df = <<>>
    /\ now \in NowStarts
    /\ cache_process_data = <<>>
    /\ cache_handpiece_dates = <<>>
    /\ page = NoPage
    /\ pc = "ready"
    /\ call \in [fn : {"process_handpiece_dates"},
                 filtered_handpiece_df : FilterFrames,
                 cutoff_date : Cutoffs]
    /\ result = [first |-> NothingFiltered, second |-> NothingFiltered,
                 argument |-> call.filtered_handpiece_df]

FilterDates ==
    /\ pc = "ready"
    /\ call.fn = "process_handpiece_dates"
    /\ result' = [result EXCEPT
           !.first = process_handpiece_dates(call.filtered_handpiece_df,
                                             call.cutoff_date, now),
           !.argument = DatesArgumentAfter(call.filtered_handpiece_df)]
    /\ pc' = "once"
    /\ UNCHANGED <<tables, now, caches, call, page>>

FilterAgain ==
    /\ pc = "once"
    /\ call.fn = "process_handpiece_dates"
    /\ result' = [result EXCEPT
           !.second = process_handpiece_dates(result.first.df,
                                              call.cutoff_date, now)]
    /\ pc' = "twice"
    /\ UNCHANGED <<tables, now, caches, call, page>>

NextFilter == FilterDates \/ FilterAgain \/ Tick

SpecFilter == InitFilter /\ [][NextFilter]_vars

(***************************************************************************)
(* Properties of the handpiece table returned by process_data.             *)
(***************************************************************************)
\* The output rows that stem from the input row at position i: they carry
\* its serial, device and timestamp and a third of its raw pulse count.
ScenarioOutputs(i) ==
    {j \in DOMAIN result.value.hp.rows :
        /\ result.value.hp.rows[j].fecha_uso = handpiece_df.rows[i].created_at
        /\ 3 * result.value.hp.rows[j].pulso.v
               = handpiece_df.rows[i].pulse_count.v}

\* C21: the raw pulse counts 300, 600 and 900 are rescaled to 100, 200 and
\* 300, and the main-function row of 100 pulses and no other use, which has
\* consumed 2000 of 4,000,000, reports "100.0%".
C21_Scenario ==
    Returned =>
        /\ Len(result.value.hp.rows) = Cardinality(HandpiecesDue)
        /\ \A i \in HandpiecesDue : ScenarioOutputs(i) # {}
        /\ \A j \in DOMAIN result.value.hp.rows :
               LET r == result.value.hp.rows[j]
               IN  /\ r.pulso.v \in {100, 200, 300}
                   /\ r.tipo_manipulo = "M.F."
                   /\ r.pulso.v = 100 => r.vida_util = "100.0%"

\* Witness of C21: the three rows of the device carry 300, 600 and 900 and
\* the output holds 100, 200 and 300, the row of 100 with "100.0%".
C21_Witness ==
    /\ Returned
    /\ Cardinality(HandpiecesDue) = 3
    /\ {handpiece_df.rows[i].pulse_count.v : i \in HandpiecesDue}
           = ScenarioPulses
    /\ {result.value.hp.rows[j].pulso.v : j \in DOMAIN result.value.hp.rows}
           = {100, 200, 300}
    /\ \E j \in DOMAIN result.value.hp.rows :
           /\ result.value.hp.rows[j].pulso.v = 100
           /\ result.value.hp.rows[j].vida_util = "100.0%"

(***************************************************************************)
(* Properties of process_handpiece_dates applied to its own output.        *)
(***************************************************************************)
\* The records of a returned table, the clock-dependent status left out.
RecordsOf(df) ==
    [i \in DOMAIN df.rows |->
        [fecha_uso |-> df.rows[i].fecha_uso, din |-> df.rows[i].din,
         tipo_manipulo |-> df.rows[i].tipo_manipulo,
         numero_serie |-> df.rows[i].numero_serie,
         vida_util |-> df.rows[i].vida_util, pulso |-> df.rows[i].pulso,
         rafaga |-> df.rows[i].rafaga, activacion |-> df.rows[i].activacion,
         modulacion |-> df.rows[i].modulacion]]

FilteredTwice == pc = "twice" /\ call.fn = "process_handpiece_dates"

\* The second pass returns the records of the first, in the same order.
SecondPassSame ==
    FilteredTwice => RecordsOf(result.second.df) = RecordsOf(result.first.df)

\* C22: the temporal filter applied with the same cutoff to its own output
\* returns the same rows in the same order, and the table passed to the
\* filter is left as it was.
C22_Idempotent ==
    /\ SecondPassSame
    /\ pc # "ready" => result.argument = call.filtered_handpiece_df

(***************************************************************************)
(* Properties of the class label and the remaining life of one row.        *)
(***************************************************************************)
\* The remaining life of an output row is the sentinel exactly when its label
\* is, the M.F. formula when its label is M.F. and the F.F. formula when its
\* label is F.F.
LabelAgrees(r) ==
    /\ r.vida_util = UNIDENTIFIED <=> r.tipo_manipulo = UNIDENTIFIED
    /\ r.tipo_manipulo = "M.F." =>
           r.vida_util = RemainingText(TotalMF, UsedMF2(r), r)
    /\ r.tipo_manipulo = "F.F." =>
           r.vida_util = RemainingText(TotalFF, UsedFF2(r), r)

\* C23: in the handpiece table process_data returns, a row's remaining life
\* is 'Manguera_no_identificada' if and only if its class label is, and the
\* class whose formula the estimator applied to the raw identifier is the
\* class the classifier wrote.
C23_SentinelIffUnidentified ==
    (pc = "done" /\ call.fn = "process_data" /\ ~result.value.raised) =>
        \A i \in DOMAIN result.value.hp.rows :
            LabelAgrees(result.value.hp.rows[i])

\* A returned row whose identifier ends in a newline after "19": labelled
\* M.F. and estimated with the M.F. formula, where the two formulas differ.
C23_Witness ==
    /\ pc = "done"
    /\ call.fn = "process_data"
    /\ ~result.value.raised
    /\ Len(result.value.hp.rows) = 1
    /\ handpiece_df.rows[1].handpiece_id = StrId(<<"1", "9", "\n">>)
    /\ result.value.hp.rows[1].tipo_manipulo = "M.F."
    /\ result.value.hp.rows[1].vida_util = "99.9%"
    /\ RemainingText(TotalFF, UsedFF2(result.value.hp.rows[1]),
                     result.value.hp.rows[1]) = "99.8%"

(***************************************************************************)
(* Properties of the order of the returned tables.                         *)
(***************************************************************************)
\* The instant of the j-th row of the returned handpiece table.
ReturnedInstant(j) ==
    RefInstant(result.value.hp.rows[j].fecha_uso.wall, result.value.hp.tz)

\* C24: the handpiece table returned is sorted by timestamp descending: the
\* instant of every row is greater than or equal to the instant of the row
\* after it.
C24_SortedDescending ==
    Returned =>
        \A j \in DOMAIN result.value.hp.rows :
            j < Len(result.value.hp.rows) =>
                ReturnedInstant(j) >= ReturnedInstant(j + 1)

\* Two rows of the device given in ascending order, both at or after the
\* cutoff, in a table without zone: returned the later one first.
C24_Witness ==
    /\ Returned
    /\ handpiece_df.tz = "naive"
    /\ Len(handpiece_df.rows) = 2
    /\ handpiece_df.rows[1].created_at = OkTime(1)
    /\ handpiece_df.rows[2].created_at = OkTime(2)
    /\ Len(result.value.hp.rows) = 2
    /\ ReturnedInstant(1) = 2
    /\ ReturnedInstant(2) = 1

\* The j-th returned treatment row carries the device, the code and the
\* timestamp of the i-th row of the treatment table.
ComesFrom(j, i) ==
    /\ result.value.tr.rows[j].din = treatments_df.rows[i].din
    /\ result.value.tr.rows[j].code = treatments_df.rows[i].code
    /\ result.value.tr.rows[j].reported_at = treatments_df.rows[i].reported_at

\* The returned treatment rows can be traced to rows of the treatment table
\* at positions that never go back.
InInputOrder ==
    \E f \in [DOMAIN result.value.tr.rows -> DOMAIN treatments_df.rows] :
        /\ \A j \in DOMAIN f : ComesFrom(j, f[j])
        /\ \A j, k \in DOMAIN f : j < k => f[j] <= f[k]

\* C25: the treatment rows returned keep the relative order they had in the
\* treatment table.
C25_InputOrderKept ==
    (Returned /\ result.value.tr.rows # <<>>) => InInputOrder

\* Two treatments of the device given in ascending order of time, both at
\* or after the cutoff: returned in that order, where a descending sort
\* would have exchanged them.
C25_Witness ==
    /\ Returned
    /\ Len(treatments_df.rows) = 2
    /\ treatments_df.rows[1].reported_at = OkTime(1)
    /\ treatments_df.rows[2].reported_at = OkTime(2)
    /\ Len(result.value.tr.rows) = 2
    /\ result.value.tr.rows[1].reported_at = OkTime(1)
    /\ result.value.tr.rows[2].reported_at = OkTime(2)

(***************************************************************************)
(* Properties of what main renders.                                        *)
(***************************************************************************)
\* The summary a rendered table or chart shows.
SummaryShown(widget) ==
    CASE widget \in {"table Tipo", "pdf Tipo", "chart Cantidad", "chart PVP"}
             -> page.treatment_summary
      [] widget \in {"table Subtipo", "pdf Subtipo"} -> page.program_summary
      [] widget \in {"table Subprograma", "pdf Subprograma"}
             -> page.subprogram_summary

SummaryWidgets ==
    SummaryTables \cup {"chart Cantidad", "chart PVP", "pdf Tipo",
                        "pdf Subtipo", "pdf Subprograma"}

\* C26: a summary chart or table, on the dashboard or in the summary PDF, is
\* rendered only for a summary that is not empty, and when no treatment row
\* passes the filter the warning is shown and no summary, chart or PDF is
\* built.
C26_EmptySkipped ==
    ProcessDone =>
        /\ \A widget \in page.rendered \cap SummaryWidgets :
               SummaryShown(widget) # <<>>
        /\ (~result.value.raised /\ result.value.tr.rows = <<>>) =>
               /\ page.view = "warning"
               /\ page.rendered = {}
               /\ page.treatment_summary = <<>>
               /\ page.program_summary = <<>>
               /\ page.subprogram_summary = <<>>

(***************************************************************************)
(* Properties of the legacy variant beside the canonical one.              *)
(***************************************************************************)
\* What the two handpiece tables have in common, under one set of names.
CanonicalCommon(r) ==
    [fecha |-> r.fecha_uso, estado |-> r.estado, din |-> r.din,
     tipo_manipulo |-> r.tipo_manipulo, numero_serie |-> r.numero_serie,
     pulso |-> r.pulso, rafaga |-> r.rafaga, activacion |-> r.activacion,
     modulacion |-> r.modulacion]

LegacyCommon(r) ==
    [fecha |-> r.ultima_fecha_uso, estado |-> r.estado, din |-> r.din,
     tipo_manipulo |-> r.tipo_manipulo, numero_serie |-> r.numero_serie,
     pulso |-> r.disparos_pulso, rafaga |-> r.disparos_rafaga,
     activacion |-> r.disparos_activacion,
     modulacion |-> r.disparos_modulacion]

\* The rows are compared; a frame without columns and a table without rows
\* both have none.
SameHandpieces ==
    [i \in DOMAIN result.value.hp.rows |->
        CanonicalCommon(result.value.hp.rows[i])]
    = [i \in DOMAIN result.legacy.hp.rows |->
        LegacyCommon(result.legacy.hp.rows[i])]

SameTreatments == result.value.tr.rows = result.legacy.tr.rows

VariantsDone == pc = "done" /\ call.fn = "process_data"

\* C27: for the same tables, device and cutoff the legacy and the canonical
\* process_data return the same treatment rows and the same handpiece rows
\* in the same order, with the same status, label, serial and counters, on
\* the error paths too.
C27_VariantsAgree ==
    VariantsDone =>
        /\ result.value.raised = result.legacy.raised
        /\ SameHandpieces
        /\ SameTreatments

\* The variants agree whenever the handpiece timestamps of the device parse.
AgreeWhenHandpiecesParse ==
    (VariantsDone /\ result.legacy.errors # <<LegacyDatesError>>) =>
        /\ result.value.raised = result.legacy.raised
        /\ SameHandpieces
        /\ SameTreatments

(***************************************************************************)
(* Properties of the number of joined rows.                                *)
(***************************************************************************)
\* C28: over treatment timestamps that parse, the joined rows returned are
\* as many as the treatment rows of the device at or after the cutoff, and
\* the counts of the summary by Tipo add up to no more than that, whatever
\* the lookup table, one that holds a code twice included.
C28_NoDuplication ==
    (Returned /\ TreatmentsParse) =>
        /\ Len(result.value.tr.rows) = Cardinality(TreatmentsDue)
        /\ page.view = "report" =>
               TotalCantidad(page.treatment_summary)
                   <= Cardinality(TreatmentsDue)

\* With a lookup table in which no code occurs twice the rows are not
\* duplicated.
UniqueLookup ==
    \A i, j \in DOMAIN treatments_id_df :
        treatments_id_df[i].Treatment_ID = treatments_id_df[j].Treatment_ID
            => i = j

NoDuplicationWhenUnique ==
    (Returned /\ TreatmentsParse /\ UniqueLookup) =>
        /\ Len(result.value.tr.rows) = Cardinality(TreatmentsDue)
        /\ page.view = "report" =>
               TotalCantidad(page.treatment_summary)
                   <= Cardinality(TreatmentsDue)

====
